---- MODULE Spec2Model ----
(***************************************************************************)
(* A model of the JSON-RPC client correlation engine of @kylelayer/rpc     *)
(* (packages/rpc/src/client.ts), together with the parts of the message    *)
(* schemas, the in-memory transport and the server dispatcher that decide  *)
(* what a call() settles with.                                             *)
(*                                                                         *)
(* JavaScript runs every callback to completion, so one action is one      *)
(* callback: a call(), a request timer firing, a message arriving on the   *)
(* transport's receive channel, a handler of the in-memory server          *)
(* returning, and the steps of gracefulShutdown() between its awaits.      *)
(***************************************************************************)
EXTENDS Integers, Sequences, FiniteSets, TLC

\* ------------------------------------------------------------------ bounds
\* number of call() invocations in a run
MaxCalls == 2
\* number of gracefulShutdown() invocations in a run
MaxShutdowns == 2
\* number of bytes in the stream a framer receives
MaxStream == 4
\* number of sockets a TargetClient creates in a run
MaxSockets == 2
\* number of TargetClient.sendMessage() invocations in a run
MaxMessages == 2
\* subscriptions an IsoEventEmitter is given by its user (callbacks may add more)
MaxSubscriptions == 3
\* connections a ProxyServer accepts
MaxClients == 3
\* stop() invocations on a ProxyServer
MaxStops == 2
\* templates a ResponseHandler holds at a time
MaxTemplates == 2
\* generateResponse() invocations on a ResponseHandler
MaxGenerated == 3

\* ------------------------------------------------------- program constants
\* client.ts:77  this.defaultRequestTimeout = args.defaultRequestTimeout ?? 30000
DefaultRequestTimeout == 30000

\* ------------------------------------------------------------ value domain
\* A request id as it appears in a message: a number, a string, null, or no
\* id member at all.  The string id [t |-> "str", v |-> n] is the text "n":
\* a Map keeps the number 1 and the string "1" as different keys.
NumId(n) == [t |-> "num", v |-> n]
StrId(n) == [t |-> "str", v |-> n]
NullId == [t |-> "null", v |-> 0]
NoId == [t |-> "absent", v |-> 0]

\* The options argument of call(): not passed, or { timeout: 100 } as in the
\* tests (event-emitter.test.ts:657).
NoOptions == [given |-> FALSE, timeout |-> 0]
CallOptions == {NoOptions, [given |-> TRUE, timeout |-> 100]}

\* JavaScript values a handler can return, and the JSON values that can be the
\* "result" member of a decoded message.  "absent" is a missing member, which
\* reads as undefined.
\*   obj       an object of the shape the method "echo" returns
\*   objExtra  the same object with one more key
\*   date      a Date
\*   str       a JSON string (what a Date is after JSON.stringify)
\*   undefined the value undefined
HandlerValues == {"obj", "objExtra", "date", "undefined"}
WireValues == {"obj", "objExtra", "str", "absent"}

\* JSON.parse(JSON.stringify(x)) for a member x of an object: undefined members
\* are dropped, a Date becomes its ISO string, plain data is kept.
JsonRoundTrip(v) ==
    CASE v = "undefined" -> "absent"
      [] v = "date" -> "str"
      [] OTHER -> v

\* The methods registered with the client (and, for the in-memory transport,
\* with the server: the tests pass server.handlers as the client's methods).
\*   echo  resultSchema z.object({message: z.string()})  (test file, line 395)
\*   now   resultSchema z.date()
MethodNames == {"echo", "now"}
CallableNames == MethodNames \cup {"missing"}

\* methodDef.resultSchema.parse(v): the parsed value, or a failure.  A z.object
\* strips the keys it does not name; z.date() accepts only a Date.
ResultSchemaParse(method, v) ==
    CASE method = "echo" /\ v \in {"obj", "objExtra"} -> [ok |-> TRUE, value |-> "obj"]
      [] method = "now" /\ v = "date" -> [ok |-> TRUE, value |-> "date"]
      [] OTHER -> [ok |-> FALSE, value |-> "none"]

\* ------------------------------------------------------------ raw messages
\* A raw string on the receive channel: text that is not JSON ("garbage"), the
\* JSON text null ("null"), or the JSON text of an object with the members
\* jsonrpc, id, result and error, each present or absent.
Garbage == [kind |-> "garbage", jsonrpc |-> "absent", id |-> NoId, result |-> "absent", error |-> "absent"]
JsonNull == [kind |-> "null", jsonrpc |-> "absent", id |-> NoId, result |-> "absent", error |-> "absent"]
Obj(v, i, r, e) == [kind |-> "object", jsonrpc |-> v, id |-> i, result |-> r, error |-> e]

\* JSON.parse(responseString): throws on text that is not JSON.
JsonParse(raw) == [threw |-> raw.kind = "garbage", value |-> raw]

\* JsonRpcSuccessResponseSchema.safeParse: jsonrpc is the literal '2.0', id is a
\* number or a string, result is z.any() (which also accepts a missing member);
\* z.object drops every member the schema does not name (here: error).
JsonRpcSuccessResponseSchema(m) ==
    [success |-> m.kind = "object" /\ m.jsonrpc = "2.0" /\ m.id.t \in {"num", "str"},
     data |-> [m EXCEPT !.error = "absent"]]

\* JsonRpcErrorResponseSchema.safeParse: id may also be null, error must be a
\* well-formed error object; the member result is dropped.
JsonRpcErrorResponseSchema(m) ==
    [success |-> m.kind = "object" /\ m.jsonrpc = "2.0" /\ m.id.t \in {"num", "str", "null"}
                    /\ m.error = "err",
     data |-> [m EXCEPT !.result = "absent"]]

\* JsonRpcResponseSchema = Success.or(Error): the first option that parses wins.
JsonRpcResponseSchema(m) ==
    IF JsonRpcSuccessResponseSchema(m).success THEN JsonRpcSuccessResponseSchema(m)
    ELSE JsonRpcErrorResponseSchema(m)

\* types.ts
isJsonRpcSuccessResponse(response) ==
    JsonRpcSuccessResponseSchema(response).success /\ response.error = "absent"

isJsonRpcErrorResponse(response) ==
    JsonRpcErrorResponseSchema(response).success

\* ------------------------------------------------------------------- state
VARIABLES
    transport,        \* "memory": InMemoryRpcClientTransport (no disconnect hook);
                      \* "external": a transport with a disconnect hook whose
                      \* receive channel is fed by a remote peer
    calls,            \* the call() invocations so far, in order: the request
                      \* id, the caller's future and how often its resolve or
                      \* reject was invoked
    generateRequestId,\* the generateRequestId the client was constructed with:
                      \* "default" (none given) or "custom" (a function of the caller)
    otherClient,      \* a second JsonRpcClient constructed on the same
                      \* transport: whether there is one, its nextRequestId and
                      \* the ids of its requests that are not answered yet
    nextRequestId,    \* JsonRpcClient.nextRequestId
    pendingRequests,  \* JsonRpcClient.pendingRequests: request id -> record
    timers,           \* the armed request timers (setTimeout handles of call())
    isShuttingDown,   \* JsonRpcClient.isShuttingDown
    shutdowns,        \* the gracefulShutdown() invocations so far, in order
    disconnects,      \* how often transport.disconnect() was invoked
    sent,             \* how many requests were handed to transport.send
    serverJobs,       \* in-memory server: requests whose handler is running
    uncaught,         \* an exception escaped handleResponse
    warned,           \* what handleResponse logged last: "none", "failed"
                      \* (console.error), "nullId" or "unknownId" (console.warn)
    fallback,         \* JsonRpcServer.fallback: an unknownMethodHandler is configured
    serverMessage,    \* the input of the current or last handleRawMessage
    serverPc,         \* "idle", or "handler": handleMessage awaits a handler
    handlerCalls,     \* how often a handler body was invoked for serverMessage
    fallbackCalls,    \* how often the unknownMethodHandler was invoked
    returned,         \* what the last handleRawMessage returned (or that it threw)
    targetClient,     \* a TargetClient: its fields, the sockets it created, its
                      \* reconnect timers and the sendMessage() invocations
    proxyServer,      \* a ProxyServer with one client connection
    framer,           \* the stream framer that receives a byte stream in
                      \* chunks: "target" (TargetClient.handleData), "proxy"
                      \* (ProxyServer.handleClientData) or "none", and the stream
    emitter,          \* an IsoEventEmitter
    responseHandler   \* a ResponseHandler: its templates, its response cache,
                      \* its message count and what generateResponse returned

\* the state of a JsonRpcServer used on its own
serverVars == <<fallback, serverMessage, serverPc, handlerCalls, fallbackCalls, returned>>

\* the components that are used without a JsonRpcClient or JsonRpcServer
otherComponents == <<targetClient, proxyServer, framer, emitter, responseHandler>>

vars == <<transport, generateRequestId, otherClient, calls, nextRequestId, pendingRequests, timers, isShuttingDown,
          shutdowns, disconnects, sent, serverJobs, uncaught, warned, serverVars,
          otherComponents>>

clientVars == <<calls, nextRequestId, pendingRequests, timers, isShuttingDown, sent>>

\* The caller's future: not settled, or settled by the first resolve/reject.
\*   by     resolved | invalidResult | rpcError | timeout | cancelled |
\*          shuttingDown | methodNotFound | invalidParams
\*   value  the value resolved with
\*   resp   the id of the response the settlement was computed from
\*   ms     the duration a timeout error names
\* The class of the error object each rejection constructs: new JsonRpcError
\* for an error response (line 201), the ZodError thrown by paramsSchema.parse
\* (line 105), and new Error(...) everywhere else (lines 97, 102, 120, 188,
\* 250).
ErrorClass(kind) ==
    CASE kind = "rpcError" -> "JsonRpcError"
      [] kind = "invalidParams" -> "ZodError"
      [] OTHER -> "Error"

Unsettled == [by |-> "pending", value |-> "none", resp |-> NoId, ms |-> 0, error |-> "none"]
Resolved(v, i) == [by |-> "resolved", value |-> v, resp |-> i, ms |-> 0, error |-> "none"]
Rejected(kind, i) == [by |-> kind, value |-> "none", resp |-> i, ms |-> 0, error |-> ErrorClass(kind)]
TimedOut(ms) == [by |-> "timeout", value |-> "none", resp |-> NoId, ms |-> ms, error |-> ErrorClass("timeout")]

\* resolve(...) or reject(...) of call c is invoked: a promise keeps its first
\* settlement, later invocations are counted and change nothing else.
Settle(cs, c, out) ==
    [cs EXCEPT ![c].out = IF cs[c].settles = 0 THEN out ELSE @,
               ![c].settles = @ + 1]

\* Map.has(requestId)
MapHas(map, key) == key \in DOMAIN map

\* mutant: the record is looked up under another key of the table
MapGet_OtherKey(map, key) ==
    IF DOMAIN map = {key} THEN map[key]
    ELSE map[CHOOSE k \in DOMAIN map : k # key]

\* mutant: the record is not deleted
MapDelete_Forgotten(map, key) == map

\* Map.get(requestId)
MapGet(map, key) == map[key]

\* Map.delete(requestId)
MapDelete(map, key) == [k \in DOMAIN map \ {key} |-> map[k]]

\* Map.set(requestId, record): an existing key is overwritten
MapSet(map, key, rec) == [k \in DOMAIN map \cup {key} |-> IF k = key THEN rec ELSE map[k]]

EmptyMap == [k \in {} |-> 0]

\* ------------------------------------------------- the server's value domain
\* Request ids beyond NumId and StrId: the empty string, and a value that is
\* neither a string nor a number nor null (an object, true).
EmptyStringId == [t |-> "emptyString", v |-> 0]
ObjectId == [t |-> "object", v |-> 0]

\* JavaScript truthiness of an id: 0, "", null and undefined are falsy.
Truthy(id) ==
    \/ id.t = "num" /\ id.v # 0
    \/ id.t \in {"str", "object"}

\* typeof id === 'string' || typeof id === 'number'; also z.union([z.number(),
\* z.string()]) of the Request schema
IsStringOrNumber(id) == id.t \in {"num", "str", "emptyString"}

\* errors.ts: JsonRpcErrorCodes
PARSE_ERROR == -32700
INVALID_REQUEST == -3600
METHOD_NOT_FOUND == -32601
INVALID_PARAMETERS == -32606
INTERNAL_SERVER_ERROR == -32603
\* the code of the CustomServerError subclass of the tests
CUSTOM_ERROR == -32000

\* A decoded input of the dispatcher.  kind is what JSON.parse produced:
\* "garbage" (it threw), "null", "scalar" (a number, a string, a boolean),
\* "array", or "object" with the members
\*   jsonrpc  "2.0" | "1.0" | "absent"
\*   method   a string, or "absent" (missing, or not a string)
\*   params   "valid" | "invalid" for the method's params schema, "null", "absent"
\*   id       an id, or NoId when the object has no id member
\*   extra    the object has a member the schemas do not name
ServerMsg(k, v, m, p, i, x) ==
    [kind |-> k, jsonrpc |-> v, method |-> m, params |-> p, id |-> i, extra |-> x]
NonObject(k) == ServerMsg(k, "absent", "absent", "absent", NoId, FALSE)
NoMessage == NonObject("none")

\* The handlers of the tests' server (part_003:137-172): the request handler
\* "echo" and the notification handler "log".  "toString" is a property every
\* JavaScript object inherits, "unknown" is no property at all.
RequestHandlers == {"echo"}
NotificationHandlers == {"log"}
InheritedProperties == {"toString"}
ServerMethodNames == {"echo", "log", "unknown", "toString", "absent"}

ServerIds == {NoId, NumId(0), NumId(1), EmptyStringId, StrId(1), NullId, ObjectId}

ServerMessages ==
    {NonObject(k) : k \in {"garbage", "null", "scalar", "array"}} \cup
    {ServerMsg("object", v, m, p, i, x) :
        v \in {"2.0", "1.0", "absent"}, m \in ServerMethodNames,
        p \in {"valid", "invalid", "null", "absent"}, i \in ServerIds, x \in BOOLEAN}

\* The message of an error: a text and, for "unable to find method X", X.
Message(text, method) == [text |-> text, method |-> method]
NoMessageText == Message("", "")

\* What handleRawMessage gives its caller: nothing yet, null, a rejection
\* (it threw), a success response or an error response.
Returned(k, i, r, c, msg, d) ==
    [kind |-> k, id |-> i, result |-> r, code |-> c, message |-> msg, data |-> d]
NothingReturned == Returned("none", NoId, "absent", 0, NoMessageText, "absent")
ReturnedNull == Returned("null", NoId, "absent", 0, NoMessageText, "absent")
Threw == Returned("threw", NoId, "absent", 0, NoMessageText, "absent")
SuccessResponse(i, r) == Returned("success", i, r, 0, NoMessageText, "absent")
ErrorResponse(i, c, msg, d) == Returned("error", i, "absent", c, msg, d)

\* A value a handler (or the dispatcher itself) throws.
\*   class      "JsonRpcError" (MethodNotFoundError, InvalidParametersError),
\*              "CustomServerError", "Error", "string" (a truthy value without
\*              a message member: a string, a number), "falsy" (null,
\*              undefined, 0, "")
\*   requestId  the requestId member of a JsonRpcError
Thrown(cls, i, c, msg, d) ==
    [class |-> cls, requestId |-> i, code |-> c, message |-> msg, data |-> d]

\* ------------------------------------- the other components, as constructed
\* TargetClient's option defaults
DefaultReconnectDelay == 1000
DefaultMaxReconnectAttempts == 5
DefaultMessageTimeout == 10000

DefaultTargetClientOptions ==
    [reconnectDelay |-> DefaultReconnectDelay,
     maxReconnectAttempts |-> DefaultMaxReconnectAttempts,
     messageTimeout |-> DefaultMessageTimeout]

\* new TargetClient(options).  A text is the sequence of its characters.
\*   socket       this.socket: the index in sockets of the Socket, 0 for null
\*   messageQueue the sendMessage() invocations whose PendingMessage is queued
\*   sockets      the Sockets created by connect(), in order
\*   reconnects   the armed timers of scheduleReconnect(), in the order in
\*                which they were armed: the attempt number logged and the delay
\*   messages     the sendMessage() invocations, in order
\*   maxReconnectAttemptsReached
\*                how often the event of that name was emitted
NewTargetClient(options) ==
    [options |-> options,
     socket |-> 0,
     buffer |-> <<>>,
     isConnected |-> FALSE,
     isConnecting |-> FALSE,
     reconnectAttempts |-> 0,
     messageQueue |-> <<>>,
     isShuttingDown |-> FALSE,
     sockets |-> <<>>,
     reconnects |-> <<>>,
     messages |-> <<>>,
     maxReconnectAttemptsReached |-> 0]

\* new ProxyServer(options) after start(), with one accepted client connection
\* (connection 1, the client whose data is followed).
\*   server          this.server: "null", "listening", or "closing" (close()
\*                   was called and its callback has not run)
\*   isShuttingDown  this.isShuttingDown
\*   clients         this.clients: the connections in the table
\*   conns           the connections accepted so far: the socket's status, and
\*                   whether the connection was ever put into the table
\*   stops           the stop() invocations so far and where each one is
\*   buffer          client.buffer
\*   wire            the bytes the client has written that no 'data' event
\*                   has delivered yet
\*   loops           the handleClientData invocations suspended at their await
\*   onMessageCalls  the messages options.onMessage was invoked with, in order
\*   replies         the messages whose reply sendToClient has written, in order
\*   replyOrder      for each reply written, the position its message has among
\*                   the messages received
\*   received        the number of messages framed so far
\*   messageErrors   the messages a messageError event was emitted for
NewProxyServer ==
    [server |-> "listening",
     isShuttingDown |-> FALSE,
     clients |-> {1},
     conns |-> <<[status |-> "open", added |-> TRUE]>>,
     stops |-> <<>>,
     replyOrder |-> <<>>,
     received |-> 0,
     buffer |-> <<>>,
     wire |-> <<>>,
     loops |-> <<>>,
     onMessageCalls |-> <<>>,
     replies |-> <<>>,
     messageErrors |-> <<>>]

\* new IsoEventEmitter(): callbacks = {}, an object without own properties.
\*   callbacks  per event name, whether callbacks has it as an own property
\*              and the array stored there
\*   invoked    the callback invocations of the last operation, in order
\*   outcome    what the last operation returned, or that it threw
EventNames == {"message", "close", "constructor"}

NoOutcome == [op |-> "none", event |-> "none", kind |-> "none", value |-> 0]

NewEmitter ==
    [callbacks |-> [e \in EventNames |-> [own |-> FALSE, array |-> <<>>]],
     invoked |-> <<>>,
     outcome |-> NoOutcome]

NoFramer == [receiver |-> "none", stream |-> <<>>]

\* A string of the ResponseHandler, or null.  A text is a sequence of pieces:
\* characters, words, and placeholders such as "${name}".
Text(text) == [null |-> FALSE, text |-> text]
NoText == [null |-> TRUE, text |-> <<>>]

\* new ResponseHandler({ defaultResponse }): the other options are the
\* defaults (echo, status and health enabled, no templates).
\*   responses      options.responses: the templates in insertion order
\*   responseCache  message -> template
\*   returned       what the last generateResponse returned
NewResponseHandler(defaultResponse) ==
    [responses |-> <<>>, responseCache |-> [k \in {} |-> 0], messageCount |-> 0,
     defaultResponse |-> defaultResponse,
     returned |-> [message |-> <<>>, clientId |-> "none", response |-> NoText]]

OtherComponentsUnused ==
    /\ targetClient = NewTargetClient(DefaultTargetClientOptions)
    /\ proxyServer = NewProxyServer
    /\ framer = NoFramer
    /\ emitter = NewEmitter
    /\ responseHandler = NewResponseHandler(NoText)

\* no second client on the transport
NoOtherClient == [present |-> FALSE, nextRequestId |-> 1, awaiting |-> {}]

\* new JsonRpcClient({ methods, notifications, transport }) on a transport of
\* its own or on one it shares, with or without a generateRequestId of the
\* caller
Constructed(generator, other) ==
    /\ generateRequestId = generator
    /\ otherClient = other

\* the client, the in-memory server and the other components right after
\* construction
Fresh ==
    /\ transport \in {"memory", "external"}
    /\ calls = <<>>
    /\ nextRequestId = 1
    /\ pendingRequests = EmptyMap
    /\ timers = {}
    /\ isShuttingDown = FALSE
    /\ shutdowns = <<>>
    /\ disconnects = 0
    /\ sent = 0
    /\ serverJobs = {}
    /\ uncaught = FALSE
    /\ warned = "none"
    /\ fallback = FALSE
    /\ serverMessage = NoMessage
    /\ serverPc = "idle"
    /\ handlerCalls = 0
    /\ fallbackCalls = 0
    /\ returned = NothingReturned
    /\ OtherComponentsUnused

Init ==
    /\ Constructed("default", NoOtherClient)
    /\ Fresh

\* ------------------------------------------------------------ the client
\* mutant: the id is derived from the number of pending requests
generateId_FromPending == NumId(Cardinality(DOMAIN pendingRequests) + 1)

\* generateId: the default generator, () => this.nextRequestId++
generateId == NumId(nextRequestId)

\* the ids a generateRequestId of the caller returns: strings, in any order and
\* with repetitions
CustomIds == {StrId(1), StrId(2)}

\* this.generateId(): args.generateRequestId ?? the default generator (line 79)
GeneratedIds == IF generateRequestId = "default" THEN {generateId} ELSE CustomIds

\* options = { timeout: this.defaultRequestTimeout } by default, and the timer
\* is armed with options.timeout ?? this.defaultRequestTimeout
ArmedTimeout(options) ==
    IF options.given THEN options.timeout ELSE DefaultRequestTimeout

\* transport.send(request), up to its first await.  The in-memory transport
\* calls the server's handleRawMessage at once, which runs up to the handler's
\* invocation; the response is published in a later tick.  An external
\* transport puts the request on the wire.
send(c, id, method) ==
    /\ sent' = sent + 1
    /\ serverJobs' = IF transport = "memory"
                     THEN serverJobs \cup {[call |-> c, id |-> id, method |-> method]}
                     ELSE serverJobs

\* mutant: call() does not test isShuttingDown
call_IgnoresShutdown(method, params, options) ==
    LET c == Len(calls) + 1
        requestId == NumId(nextRequestId)
        timeout == [call |-> c, ms |-> ArmedTimeout(options)]
    IN
    /\ Len(calls) < MaxCalls
    /\ method \in MethodNames
    /\ params = "valid"
    /\ nextRequestId' = nextRequestId + 1
    /\ calls' = Append(calls, [id |-> requestId, out |-> Unsettled, settles |-> 0])
    /\ timers' = timers \cup {timeout}
    /\ pendingRequests' = MapSet(pendingRequests, requestId,
                                 [call |-> c, method |-> method, timeout |-> timeout])
    /\ send(c, requestId, method)
    /\ UNCHANGED <<otherComponents, serverVars, transport, generateRequestId, otherClient, isShuttingDown, shutdowns, disconnects, uncaught, warned>>

\* mutant: call() draws the request id before it validates the params
call_IdBeforeValidation(method, params, options) ==
    LET c == Len(calls) + 1
        new(id, out) == Append(calls, [id |-> id, out |-> out,
                                       settles |-> IF out = Unsettled THEN 0 ELSE 1])
    IN
    /\ Len(calls) < MaxCalls
    /\ UNCHANGED <<otherComponents, serverVars, transport, generateRequestId, otherClient, isShuttingDown, shutdowns, disconnects, uncaught, warned>>
    /\ IF isShuttingDown THEN
            /\ calls' = new(NoId, Rejected("shuttingDown", NoId))
            /\ UNCHANGED <<nextRequestId, pendingRequests, timers, sent, serverJobs>>
       ELSE IF method \notin MethodNames THEN
            /\ calls' = new(NoId, Rejected("methodNotFound", NoId))
            /\ UNCHANGED <<nextRequestId, pendingRequests, timers, sent, serverJobs>>
       ELSE IF params # "valid" THEN
            /\ calls' = new(NoId, Rejected("invalidParams", NoId))
            /\ nextRequestId' = nextRequestId + 1
            /\ UNCHANGED <<pendingRequests, timers, sent, serverJobs>>
       ELSE
            LET requestId == NumId(nextRequestId)
                timeout == [call |-> c, ms |-> ArmedTimeout(options)]
            IN
            /\ nextRequestId' = nextRequestId + 1
            /\ calls' = new(requestId, Unsettled)
            /\ timers' = timers \cup {timeout}
            /\ pendingRequests' = MapSet(pendingRequests, requestId,
                                         [call |-> c, method |-> method, timeout |-> timeout])
            /\ send(c, requestId, method)

\* JsonRpcClient.call(method, params, options).  The function is async: what
\* its body throws rejects the returned future.
call(method, params, options) ==
    LET c == Len(calls) + 1
        new(id, out) == Append(calls, [id |-> id, out |-> out,
                                       settles |-> IF out = Unsettled THEN 0 ELSE 1])
    IN
    /\ Len(calls) < MaxCalls
    /\ UNCHANGED <<otherComponents, serverVars, transport, generateRequestId, otherClient, isShuttingDown, shutdowns, disconnects, uncaught, warned>>
    /\ IF isShuttingDown THEN
            /\ calls' = new(NoId, Rejected("shuttingDown", NoId))
            /\ UNCHANGED <<nextRequestId, pendingRequests, timers, sent, serverJobs>>
       ELSE IF method \notin MethodNames THEN
            /\ calls' = new(NoId, Rejected("methodNotFound", NoId))
            /\ UNCHANGED <<nextRequestId, pendingRequests, timers, sent, serverJobs>>
       ELSE IF params # "valid" THEN
            /\ calls' = new(NoId, Rejected("invalidParams", NoId))
            /\ UNCHANGED <<nextRequestId, pendingRequests, timers, sent, serverJobs>>
       ELSE
            \E requestId \in GeneratedIds :
            LET timeout == [call |-> c, ms |-> ArmedTimeout(options)]
            IN
            /\ nextRequestId' = IF generateRequestId = "default"
                                THEN nextRequestId + 1 ELSE nextRequestId
            /\ calls' = new(requestId, Unsettled)
            /\ timers' = timers \cup {timeout}
            /\ pendingRequests' = MapSet(pendingRequests, requestId,
                                         [call |-> c, method |-> method, timeout |-> timeout])
            /\ send(c, requestId, method)

\* mutant: the timeout callback rejects without removing the pending record
requestTimeout_KeepsRecord(t) ==
    /\ t \in timers
    /\ timers' = timers \ {t}
    /\ calls' = Settle(calls, t.call, TimedOut(DefaultRequestTimeout))
    /\ UNCHANGED <<otherComponents, serverVars, transport, generateRequestId, otherClient, nextRequestId, pendingRequests, isShuttingDown, shutdowns,
                   disconnects, sent, serverJobs, uncaught, warned>>

\* The setTimeout callback of call(): the timer t has fired.
requestTimeout(t) ==
    LET requestId == calls[t.call].id IN
    /\ t \in timers
    /\ timers' = timers \ {t}
    /\ IF MapHas(pendingRequests, requestId) THEN
            /\ pendingRequests' = MapDelete(pendingRequests, requestId)
            /\ calls' = Settle(calls, t.call, TimedOut(DefaultRequestTimeout))
       ELSE UNCHANGED <<pendingRequests, calls>>
    /\ UNCHANGED <<otherComponents, serverVars, transport, generateRequestId, otherClient, nextRequestId, isShuttingDown, shutdowns, disconnects,
                   sent, serverJobs, uncaught, warned>>

\* mutant: a success response resolves the call with its result as received
outcomeOf_Unvalidated(pendingRequest, response) ==
    IF isJsonRpcSuccessResponse(response)
    THEN Resolved(IF response.result = "absent" THEN "undefined" ELSE response.result,
                  response.id)
    ELSE IF isJsonRpcErrorResponse(response) THEN Rejected("rpcError", response.id)
    ELSE Unsettled

\* handleResponse, lines 179-211: what the matched pending request is settled
\* with.  A success response is validated against the result schema of the
\* method the call was made for; the last branch settles nothing.
outcomeOf(pendingRequest, response) ==
    LET result == IF response.result = "absent" THEN "undefined" ELSE response.result
        validated == ResultSchemaParse(pendingRequest.method, result)
    IN
    IF isJsonRpcSuccessResponse(response) THEN
        IF pendingRequest.method \in MethodNames THEN
            IF validated.ok
            THEN Resolved(validated.value, response.id)
            ELSE Rejected("invalidResult", response.id)
        ELSE Resolved(result, response.id)
    ELSE IF isJsonRpcErrorResponse(response) THEN Rejected("rpcError", response.id)
    ELSE Unsettled

\* mutant: a response for an unknown id cancels the timers of the pending calls
dropResponse_ClearsTimers(logged) ==
    /\ warned' = logged
    /\ timers' = IF logged = "unknownId" THEN {} ELSE timers
    /\ UNCHANGED <<pendingRequests, calls, uncaught>>

\* handleResponse, the early returns: the message is logged and dropped.
dropResponse(logged) ==
    /\ warned' = logged
    /\ UNCHANGED <<pendingRequests, timers, calls, uncaught>>

\* JsonRpcClient.handleResponse(responseString): the client's variables after
\* it.  Everything runs inside try/catch, so the throw of JSON.parse is caught.
handleResponse(raw) ==
    LET parsed == JsonParse(raw)
        r == JsonRpcResponseSchema(parsed.value)
        response == r.data
        requestId == response.id
    IN
    IF parsed.threw THEN dropResponse("failed")
    ELSE IF ~r.success THEN dropResponse("failed")
    ELSE IF requestId = NullId THEN dropResponse("nullId")
    ELSE IF ~MapHas(pendingRequests, requestId) THEN dropResponse("unknownId")
    ELSE
        LET pendingRequest == MapGet(pendingRequests, requestId)
            out == outcomeOf(pendingRequest, response)
        IN
        /\ pendingRequests' = MapDelete(pendingRequests, requestId)
        /\ timers' = timers \ {pendingRequest.timeout}
        /\ calls' = IF out = Unsettled THEN calls ELSE Settle(calls, pendingRequest.call, out)
        /\ UNCHANGED <<uncaught, warned>>

\* The raw messages a peer sends.  For each id the client can issue: a result
\* that passes the result schema of "echo", one with an extra key together with
\* an error member, a result that fails the schema, and an error response.  For
\* an id the client never issues, the string "1", a null id, no id and a wrong
\* version: one message each.
IssuableIds == {NumId(n) : n \in 1..MaxCalls}
RawMessages ==
    {Garbage, JsonNull} \cup
    {Obj("2.0", i, "obj", "absent") : i \in IssuableIds} \cup
    {Obj("2.0", i, "objExtra", "err") : i \in IssuableIds} \cup
    {Obj("2.0", i, "str", "absent") : i \in IssuableIds} \cup
    {Obj("2.0", i, "absent", "err") : i \in IssuableIds} \cup
    {Obj("2.0", NumId(MaxCalls + 1), "obj", "absent"),
     Obj("2.0", StrId(1), "obj", "absent"),
     Obj("2.0", NullId, "absent", "err"),
     Obj("2.0", NoId, "obj", "absent"),
     Obj("1.0", NumId(1), "obj", "absent")}

receive(raw) ==
    /\ transport = "external"
    /\ handleResponse(raw)
    /\ UNCHANGED <<otherComponents, serverVars, transport, generateRequestId, otherClient, nextRequestId, isShuttingDown, shutdowns, disconnects,
                   sent, serverJobs>>

\* ------------------------------------------- the in-memory transport + server
\* What a handler of the server does with a request: it returns a value, throws
\* an Error, or throws a falsy value (null, undefined).
HandlerOutcomes ==
    {[kind |-> "return", value |-> v] : v \in HandlerValues} \cup
    {[kind |-> "throw", value |-> "error"], [kind |-> "throw", value |-> "null"]}

NoResponse == [kind |-> "none", jsonrpc |-> "absent", id |-> NoId, result |-> "absent", error |-> "absent"]

\* mutant: the response does not carry the id of the request
handleMessage_LosesId(request, h) ==
    IF h.kind = "return" THEN Obj("2.0", NullId, JsonRoundTrip(h.value), "absent")
    ELSE IF h.value = "error" THEN Obj("2.0", NullId, "absent", "err")
    ELSE NoResponse

\* JsonRpcServer.handleMessage for a well-formed request whose method is
\* registered and whose params are valid, once its handler has finished with h:
\* a success response carrying the returned value, an InternalServerError
\* response for a thrown Error, and null (no response) for a thrown falsy value
\* (the test `error && ...` of the catch block fails).  JSON.stringify on the
\* way out and JSON.parse in the client are applied to the result.
handleMessage(request, h) ==
    IF h.kind = "return" THEN Obj("2.0", request.id, JsonRoundTrip(h.value), "absent")
    ELSE IF h.value = "error" THEN Obj("2.0", request.id, "absent", "err")
    ELSE NoResponse

\* InMemoryRpcClientTransport.send after its await: the handler of job has
\* finished with h; a non-null response is published on the receive channel,
\* whose subscriber is the client's handleResponse.
serverReply(job, h) ==
    LET response == handleMessage(job, h) IN
    /\ transport = "memory"
    /\ job \in serverJobs
    /\ serverJobs' = serverJobs \ {job}
    /\ IF response # NoResponse THEN handleResponse(response)
       ELSE UNCHANGED <<pendingRequests, timers, calls, uncaught, warned>>
    /\ UNCHANGED <<otherComponents, serverVars, transport, generateRequestId, otherClient, nextRequestId, isShuttingDown, shutdowns, disconnects, sent>>

\* -------------------------------------------------------- gracefulShutdown
\* JsonRpcClient.cancelPendingRequests: the calls after every pending record
\* was rejected; the caller clears the timers and the table.
RECURSIVE RejectAll(_, _)
RejectAll(cs, recs) ==
    IF recs = {} THEN cs
    ELSE LET rec == CHOOSE x \in recs : TRUE
         IN RejectAll(Settle(cs, rec.call, Rejected("cancelled", NoId)), recs \ {rec})

\* mutant: the pending calls are rejected without clearTimeout
cancelPendingRequests_KeepsTimers ==
    /\ timers' = timers
    /\ calls' = RejectAll(calls, {pendingRequests[k] : k \in DOMAIN pendingRequests})
    /\ pendingRequests' = EmptyMap

cancelPendingRequests ==
    LET recs == {pendingRequests[k] : k \in DOMAIN pendingRequests} IN
    /\ timers' = timers \ {rec.timeout : rec \in recs}
    /\ calls' = RejectAll(calls, recs)
    /\ pendingRequests' = EmptyMap

\* if (this.transport.disconnect) await this.transport.disconnect()
\* InMemoryRpcClientTransport defines no disconnect.
HasDisconnect == transport = "external"

\* mutant: gracefulShutdown cancels the pending calls without waiting for them
gracefulShutdown_NoWait ==
    /\ Len(shutdowns) < MaxShutdowns
    /\ isShuttingDown' = TRUE
    /\ cancelPendingRequests
    /\ disconnects' = IF HasDisconnect THEN disconnects + 1 ELSE disconnects
    /\ shutdowns' = Append(shutdowns,
            [pc |-> IF HasDisconnect THEN "disconnecting" ELSE "done", how |-> "empty"])
    /\ UNCHANGED <<otherComponents, serverVars, transport, generateRequestId, otherClient, nextRequestId, sent, serverJobs, uncaught, warned>>

\* gracefulShutdown(), up to its first await.
gracefulShutdown ==
    /\ Len(shutdowns) < MaxShutdowns
    /\ isShuttingDown' = TRUE
    /\ IF DOMAIN pendingRequests = {} THEN
            /\ disconnects' = IF HasDisconnect THEN disconnects + 1 ELSE disconnects
            /\ shutdowns' = Append(shutdowns,
                    [pc |-> IF HasDisconnect THEN "disconnecting" ELSE "done", how |-> "empty"])
       ELSE
            /\ shutdowns' = Append(shutdowns, [pc |-> "waiting", how |-> "none"])
            /\ UNCHANGED disconnects
    /\ UNCHANGED <<otherComponents, serverVars, transport, generateRequestId, otherClient, calls, nextRequestId, pendingRequests, timers, sent,
                   serverJobs, uncaught, warned>>

\* The race of gracefulShutdown s is decided and the function resumes after
\* `await shutdownPromise`: cancelPendingRequests(), then disconnect().  The
\* resumption runs in the microtasks of the timer callback that decided the
\* race, so no other callback comes between.
resume(s, how) ==
    /\ cancelPendingRequests
    /\ disconnects' = IF HasDisconnect THEN disconnects + 1 ELSE disconnects
    /\ shutdowns' = [shutdowns EXCEPT ![s] =
                        [pc |-> IF HasDisconnect THEN "disconnecting" ELSE "done", how |-> how]]
    /\ UNCHANGED <<otherComponents, serverVars, transport, generateRequestId, otherClient, nextRequestId, isShuttingDown, sent, serverJobs, uncaught, warned>>

\* waitForPendingRequests: a tick of the 100 ms interval finds the table empty.
shutdownDrained(s) ==
    /\ s \in 1..Len(shutdowns)
    /\ shutdowns[s].pc = "waiting"
    /\ DOMAIN pendingRequests = {}
    /\ resume(s, "drained")

\* waitForShutdownTimeout: the shutdown timer fires.
shutdownTimedOut(s) ==
    /\ s \in 1..Len(shutdowns)
    /\ shutdowns[s].pc = "waiting"
    /\ resume(s, "timeout")

\* transport.disconnect() has completed and gracefulShutdown s returns.
disconnected(s) ==
    /\ s \in 1..Len(shutdowns)
    /\ shutdowns[s].pc = "disconnecting"
    /\ shutdowns' = [shutdowns EXCEPT ![s].pc = "done"]
    /\ UNCHANGED <<otherComponents, serverVars, transport, generateRequestId, otherClient, calls, nextRequestId, pendingRequests, timers, isShuttingDown,
                   disconnects, sent, serverJobs, uncaught, warned>>

\* ------------------------------------------------------------- the server
\* JsonRpcRequestSchema.safeParse: jsonrpc is the literal '2.0', method is a
\* string, params is anything or missing, id is a number or a string; members
\* the schema does not name are dropped.
JsonRpcRequestSchema(m) ==
    [success |-> m.kind = "object" /\ m.jsonrpc = "2.0" /\ m.method # "absent"
                    /\ IsStringOrNumber(m.id),
     data |-> [m EXCEPT !.extra = FALSE]]

\* JsonRpcNotificationSchema.safeParse: as above without id, params must not
\* be null, and .strict() refuses every member the schema does not name.
JsonRpcNotificationSchema(m) ==
    [success |-> m.kind = "object" /\ m.jsonrpc = "2.0" /\ m.method # "absent"
                    /\ m.params # "null" /\ m.id = NoId /\ ~m.extra,
     data |-> m]

\* 'id' in serverMessage: a TypeError for null and for a primitive, false for
\* an array
IdInThrows(m) == m.kind \in {"null", "scalar"}
IdIn(m) == m.kind = "object" /\ m.id # NoId

MethodNotFoundError(requestId, method) ==
    Thrown("JsonRpcError", requestId, METHOD_NOT_FOUND,
           Message("unable to find method", method), "absent")

InvalidParametersError(requestId) ==
    Thrown("JsonRpcError", requestId, INVALID_PARAMETERS,
           Message("invalid parameters", ""), "absent")

NoError == Thrown("none", NoId, 0, NoMessageText, "absent")

\* handleRpcRequest up to the invocation of the handler: the error it throws,
\* or NoError when the handler is invoked.  handlers[request.method] finds
\* the registered handlers and the properties every object inherits; for the
\* latter method.paramsSchema is undefined and .parse throws inside the try.
handleRpcRequest(request) ==
    IF request.method \notin RequestHandlers \cup InheritedProperties
    THEN MethodNotFoundError(request.id, request.method)
    ELSE IF request.method \in InheritedProperties \/ request.params # "valid"
    THEN InvalidParametersError(request.id)
    ELSE NoError

\* handleRpcNotification up to the invocation of the handler.
handleRpcNotification(notification) ==
    IF notification.method \notin NotificationHandlers \cup InheritedProperties
    THEN MethodNotFoundError(NullId, notification.method)
    ELSE IF notification.method \in InheritedProperties \/ notification.params # "valid"
    THEN InvalidParametersError(NullId)
    ELSE NoError

\* handleMessage, the catch block (lines 266-299): error was thrown while the
\* validated message data was handled.
catchError(data, error) ==
    IF error.class \in {"JsonRpcError", "CustomServerError"} /\ Truthy(error.requestId)
    THEN ErrorResponse(error.requestId, error.code, error.message, error.data)
    ELSE IF error.class # "falsy" /\ IdIn(data) /\ IsStringOrNumber(data.id)
    THEN ErrorResponse(data.id, INTERNAL_SERVER_ERROR,
                       IF error.class \in {"JsonRpcError", "CustomServerError", "Error"}
                       THEN error.message
                       ELSE Message("an unknown error occurred", ""),
                       "absent")
    ELSE ReturnedNull

\* handleMessage, lines 246-258: the shape validation.
validate(m) == IF IdIn(m) THEN JsonRpcRequestSchema(m) ELSE JsonRpcNotificationSchema(m)

\* the response to a message that fails its shape
invalidRequest(m) ==
    ErrorResponse(IF IdIn(m) /\ Truthy(m.id) THEN m.id ELSE NullId,
                  INVALID_REQUEST, Message("invalid JSON RPC request", ""), "absent")

\* the error handleMessage meets before any handler runs, or NoError
route(data) == IF IdIn(data) THEN handleRpcRequest(data) ELSE handleRpcNotification(data)

\* What a handler does once invoked: it returns a value or throws one.
ThrownValues ==
    {Thrown("Error", NoId, 0, Message("Test error", ""), "absent"),
     Thrown("string", NoId, 0, NoMessageText, "absent"),
     Thrown("falsy", NoId, 0, NoMessageText, "absent")} \cup
    {Thrown("CustomServerError", i, CUSTOM_ERROR, Message("Custom test error", ""), "info") :
        i \in {NumId(0), NumId(1), NumId(7), StrId(1), NullId}}

ServerHandlerOutcomes ==
    {[kind |-> "return", value |-> v, error |-> NoError] : v \in HandlerValues} \cup
    {[kind |-> "throw", value |-> "none", error |-> e] : e \in ThrownValues}

\* everything of the client, which a server used on its own does not touch
clientSide == <<transport, generateRequestId, otherClient, clientVars, shutdowns, disconnects, serverJobs, uncaught, warned,
               otherComponents>>

\* JsonRpcServer.handleRawMessage(message), up to its return or up to the
\* await of the handler.
handleRawMessage(raw) ==
    LET v == validate(raw)
        error == route(v.data)
    IN
    /\ serverPc = "idle"
    /\ serverMessage' = raw
    /\ IF raw.kind = "garbage" THEN
            /\ returned' = ErrorResponse(NullId, PARSE_ERROR,
                                         Message("invalid JSON payload structure", ""), "absent")
            /\ handlerCalls' = 0
            /\ serverPc' = "idle"
       ELSE IF IdInThrows(raw) THEN
            /\ returned' = Threw
            /\ handlerCalls' = 0
            /\ serverPc' = "idle"
       ELSE IF ~v.success THEN
            /\ returned' = invalidRequest(raw)
            /\ handlerCalls' = 0
            /\ serverPc' = "idle"
       ELSE IF error # NoError THEN
            /\ returned' = catchError(v.data, error)
            /\ handlerCalls' = 0
            /\ serverPc' = "idle"
       ELSE
            /\ returned' = NothingReturned
            /\ handlerCalls' = 1
            /\ serverPc' = "handler"
    /\ UNCHANGED <<fallback, fallbackCalls, clientSide>>

\* The handler awaited by handleRpcRequest / handleRpcNotification settles
\* with h, and handleMessage returns.
handlerSettles(h) ==
    LET data == validate(serverMessage).data IN
    /\ serverPc = "handler"
    /\ serverPc' = "idle"
    /\ returned' = IF h.kind = "throw" THEN catchError(data, h.error)
                   ELSE IF IdIn(data) THEN SuccessResponse(data.id, h.value)
                   ELSE ReturnedNull
    /\ UNCHANGED <<fallback, serverMessage, handlerCalls, fallbackCalls, clientSide>>

\* A server on its own, with or without an unknownMethodHandler.
ServerInit ==
    /\ transport = "memory"
    /\ Constructed("default", NoOtherClient)
    /\ calls = <<>>
    /\ nextRequestId = 1
    /\ pendingRequests = EmptyMap
    /\ timers = {}
    /\ isShuttingDown = FALSE
    /\ shutdowns = <<>>
    /\ disconnects = 0
    /\ sent = 0
    /\ serverJobs = {}
    /\ uncaught = FALSE
    /\ warned = "none"
    /\ fallback \in BOOLEAN
    /\ serverMessage = NoMessage
    /\ serverPc = "idle"
    /\ handlerCalls = 0
    /\ fallbackCalls = 0
    /\ returned = NothingReturned
    /\ OtherComponentsUnused

ServerNext ==
    \/ \E raw \in ServerMessages : handleRawMessage(raw)
    \/ \E h \in ServerHandlerOutcomes : handlerSettles(h)

ServerSpec == ServerInit /\ [][ServerNext]_vars

\* ------------------------------------------------------------------- texts
\* A text is the sequence of its characters and a chunk the sequence of its
\* bytes.  The bytes are 'a', ' ', LF and C3 A9, the UTF-8 encoding of U+00E9.
Bytes == {"a", " ", "\n", "C3", "A9"}

\* the characters String.prototype.trim removes
Whitespace == {" ", "\n"}

\* Buffer.toString(): the UTF-8 decoding of one chunk; a byte that is not
\* part of a complete sequence becomes U+FFFD
RECURSIVE toString(_)
toString(data) ==
    IF data = <<>> THEN <<>>
    ELSE IF Head(data) = "C3" /\ Len(data) >= 2 /\ data[2] = "A9" THEN
        <<"U+00E9">> \o toString(Tail(Tail(data)))
    ELSE IF Head(data) \in {"C3", "A9"} THEN
        <<"U+FFFD">> \o toString(Tail(data))
    ELSE <<Head(data)>> \o toString(Tail(data))

\* String.prototype.split('\n')
RECURSIVE split(_)
split(text) ==
    IF \A i \in 1..Len(text) : text[i] # "\n" THEN <<text>>
    ELSE LET i == CHOOSE k \in 1..Len(text) :
                      text[k] = "\n" /\ \A j \in 1..(k - 1) : text[j] # "\n"
         IN <<SubSeq(text, 1, i - 1)>> \o split(SubSeq(text, i + 1, Len(text)))

\* String.prototype.trim
RECURSIVE trim(_)
trim(text) ==
    IF text = <<>> THEN <<>>
    ELSE IF Head(text) \in Whitespace THEN trim(Tail(text))
    ELSE IF text[Len(text)] \in Whitespace THEN trim(SubSeq(text, 1, Len(text) - 1))
    ELSE text

NotBlank(message) == message # <<>>

\* The framing shared by TargetClient.handleData and
\* ProxyServer.handleClientData:
\*     buffer += data; messages = buffer.split('\n')
\*     buffer = messages.pop() || ''
\*     for (message of messages) if (message.trim()) ... message.trim() ...
\* gives the new buffer and the messages the loop body runs for.
frame(buffer, data) ==
    LET pieces == split(buffer \o data)
        messages == SubSeq(pieces, 1, Len(pieces) - 1)
    IN [buffer |-> pieces[Len(pieces)],
        messages |-> SelectSeq([i \in 1..Len(messages) |-> trim(messages[i])], NotBlank)]

\* ------------------------------------------------------------ TargetClient
\* The promise returned by sendMessage().
Pending == [kind |-> "pending", response |-> <<>>, reason |-> "none"]

ResolvedWith(response) == [kind |-> "resolved", response |-> response, reason |-> "none"]

RejectedWith(reason) == [kind |-> "rejected", response |-> <<>>, reason |-> reason]

\* A sendMessage() invocation.
\*   settles   how often its resolve or reject was invoked
\*   timer     its timeoutId is armed
\*   socket    while it is queued: the socket its text was written to
\*   awaiting  the socket whose connect() promise it awaits, 0 if none
NewMessage == [out |-> Pending, settles |-> 0, timer |-> FALSE, socket |-> 0, awaiting |-> 0]

\* A Socket created by connect().
\*   status          "connecting", "open", "destroyed" (destroy() was called,
\*                   'close' not yet emitted) or "closed"
\*   connectTimeout  the connectTimeout timer of this connect() is armed
\*   promise         the promise of this connect(): "pending", "resolved", "rejected"
\*   caller          the sendMessage() invocation that called connect(), 0 for
\*                   the reconnect timer
\*   wire            the bytes of the peer's answers that no 'data' event has
\*                   delivered yet
NewSocket(caller) ==
    [status |-> "connecting", connectTimeout |-> TRUE, promise |-> "pending",
     caller |-> caller, wire |-> <<>>]

\* Socket s is closed: what was in flight on it is gone, and so is the
\* promise of its connect() unless the connectTimeout timer is still armed.
closed(t, s) ==
    LET socket == t.sockets[s] IN
    [t EXCEPT !.sockets[s] =
        [status |-> "closed", connectTimeout |-> socket.connectTimeout,
         promise |-> IF socket.connectTimeout THEN socket.promise ELSE "dropped",
         caller |-> IF socket.connectTimeout THEN socket.caller ELSE 0,
         wire |-> <<>>]]

\* resolve or reject of message m's promise: only the first call settles it
settle(t, m, out) ==
    LET old == t.messages[m] IN
    [t EXCEPT !.messages[m] =
        [old EXCEPT !.out = IF old.out.kind = "pending" THEN out ELSE old.out,
                    !.settles = old.settles + 1,
                    !.socket = 0]]

\* clearTimeout(pending.timeoutId)
clearTimeout(t, m) == [t EXCEPT !.messages[m].timer = FALSE]

\* for (const pending of this.messageQueue) { clearTimeout; pending.reject(...) }
RECURSIVE rejectQueued(_, _, _)
rejectQueued(t, queue, reason) ==
    IF queue = <<>> THEN t
    ELSE rejectQueued(settle(clearTimeout(t, Head(queue)), Head(queue), RejectedWith(reason)),
                      Tail(queue), reason)

\* TargetClient.scheduleReconnect
scheduleReconnect(t) ==
    IF t.reconnectAttempts >= t.options.maxReconnectAttempts THEN
        [t EXCEPT !.maxReconnectAttemptsReached = @ + 1]
    ELSE
        LET attempts == t.reconnectAttempts + 1
            delay == t.options.reconnectDelay * attempts
        IN [t EXCEPT !.reconnectAttempts = attempts,
                     !.reconnects = Append(@, [attempt |-> attempts, delay |-> delay])]

\* TargetClient.handleConnection
handleConnection(t) ==
    [t EXCEPT !.isConnected = TRUE, !.isConnecting = FALSE, !.reconnectAttempts = 0]

\* TargetClient.handleConnectionError; an 'error' listener is registered on
\* the client, so that emit('error') returns
handleConnectionError(t) ==
    LET t1 == [t EXCEPT !.isConnecting = FALSE] IN
    IF ~t1.isShuttingDown THEN scheduleReconnect(t1) ELSE t1

handleDisconnection_KeepsQueue(t) ==
    LET t1 == [t EXCEPT !.isConnected = FALSE, !.socket = 0, !.buffer = <<>>]
    IN IF ~t1.isShuttingDown THEN scheduleReconnect(t1) ELSE t1

\* TargetClient.handleDisconnection
handleDisconnection(t) ==
    LET t1 == [rejectQueued(t, t.messageQueue, "Connection lost") EXCEPT
                    !.isConnected = FALSE, !.socket = 0, !.buffer = <<>>,
                    !.messageQueue = <<>>]
    IN IF ~t1.isShuttingDown THEN scheduleReconnect(t1) ELSE t1

\* TargetClient.processResponse(response)
processResponse(t, response) ==
    IF t.messageQueue # <<>> THEN
        LET pending == Head(t.messageQueue) IN
        [settle(clearTimeout(t, pending), pending, ResolvedWith(response)) EXCEPT
            !.messageQueue = Tail(t.messageQueue)]
    ELSE t

RECURSIVE processResponses(_, _)
processResponses(t, messages) ==
    IF messages = <<>> THEN t
    ELSE processResponses(processResponse(t, Head(messages)), Tail(messages))

\* TargetClient.handleData(data)
handleData(t, data) ==
    LET framed == frame(t.buffer, data) IN
    processResponses([t EXCEPT !.buffer = framed.buffer], framed.messages)

\* TargetClient.connect(), called by sendMessage invocation caller or by the
\* reconnect timer (caller 0), up to the return of its promise
connect(t, caller) ==
    IF t.isConnected \/ t.isConnecting THEN t
    ELSE [t EXCEPT !.isConnecting = TRUE,
                   !.sockets = Append(@, NewSocket(caller)),
                   !.socket = Len(t.sockets) + 1]

\* whether connect() would create a socket
Connects(t) == ~t.isConnected /\ ~t.isConnecting

\* what the peer answers to the m-th message: one line naming the message
Answer(m) == <<ToString(m), "\n">>

\* Array.prototype.splice(index, 1) at the position of m, if it is queued
remove(queue, m) == SelectSeq(queue, LAMBDA q : q # m)

\* The promise executor of sendMessage (lines 114-146) for invocation m: it
\* arms the timer, queues the PendingMessage and writes to this.socket; the
\* write throws a TypeError when this.socket is null.  The peer answers every
\* message it receives, once and in the order received: its answer is in
\* flight from then on, until the socket delivers it or closes.
enqueueAndWrite(t, m) ==
    LET t1 == [t EXCEPT !.messages[m].timer = TRUE, !.messages[m].awaiting = 0,
                        !.messageQueue = Append(@, m)]
    IN IF t.socket = 0 THEN
            [settle(clearTimeout(t1, m), m, RejectedWith("TypeError")) EXCEPT
                !.messageQueue = remove(t1.messageQueue, m)]
       ELSE [t1 EXCEPT !.sockets[t.socket].wire = @ \o Answer(m),
                       !.messages[m].socket = t.socket]

\* everything of the JSON-RPC client and server
rpcSide == <<transport, generateRequestId, otherClient, clientVars, shutdowns, disconnects, serverJobs, uncaught, warned,
             serverVars>>

\* everything but the TargetClient
targetUnused == <<rpcSide, proxyServer, framer, emitter, responseHandler>>

\* TargetClient.sendMessage(message), up to its first suspension: the await of
\* a connect() that created a socket, or the return of the promise.  When a
\* connect() is already in progress, connect() returns at once and the
\* message is written to the socket that is still connecting.
sendMessage ==
    LET m == Len(targetClient.messages) + 1
        t == [targetClient EXCEPT !.messages = Append(@, NewMessage)]
    IN
    /\ m <= MaxMessages
    /\ Connects(t) => Len(t.sockets) < MaxSockets
    /\ targetClient' =
            IF Connects(t) THEN
                [connect(t, m) EXCEPT !.messages[m].awaiting = Len(t.sockets) + 1]
            ELSE enqueueAndWrite(t, m)
    /\ UNCHANGED targetUnused

\* The timer of sendMessage invocation m fires (lines 115-121).  The armed
\* timers are those of the queued messages; they have the same delay and
\* were armed in queue order, so the first one fires first.  The
\* connectTimeout of the socket the message was written to has that delay
\* too and was armed before.
messageTimeout(m) ==
    /\ m \in 1..Len(targetClient.messages)
    /\ targetClient.messages[m].timer
    /\ targetClient.messageQueue # <<>> /\ m = Head(targetClient.messageQueue)
    /\ ~targetClient.sockets[targetClient.messages[m].socket].connectTimeout
    /\ targetClient' =
            [settle(clearTimeout(targetClient, m), m, RejectedWith("Message timeout")) EXCEPT
                !.messageQueue = remove(targetClient.messageQueue, m)]
    /\ UNCHANGED targetUnused

\* The r-th of the armed reconnect timers fires (lines 227-233).  A timer
\* that was armed earlier with a delay that is not longer fires first.
reconnectTimer(r) ==
    LET armed == targetClient.reconnects
        t == [targetClient EXCEPT !.reconnects = SubSeq(armed, 1, r - 1) \o
                                                 SubSeq(armed, r + 1, Len(armed))]
    IN
    /\ r \in 1..Len(armed)
    /\ \A q \in 1..(r - 1) : armed[q].delay > armed[r].delay
    /\ (~t.isShuttingDown /\ Connects(t)) => Len(t.sockets) < MaxSockets
    /\ targetClient' = IF ~t.isShuttingDown THEN connect(t, 0) ELSE t
    /\ UNCHANGED targetUnused

\* Socket s connects: the callback of socket.connect (lines 62-66), and then
\* the sendMessage that awaited this connect() goes on.
socketConnect(s) ==
    LET socket == targetClient.sockets[s]
        t == handleConnection([targetClient EXCEPT !.sockets[s].status = "open",
                                                   !.sockets[s].connectTimeout = FALSE])
        resolved == [t EXCEPT !.sockets[s].promise = "resolved"]
    IN
    /\ s \in 1..Len(targetClient.sockets)
    /\ socket.status = "connecting"
    /\ targetClient' =
            IF socket.promise # "pending" THEN t
            ELSE IF socket.caller = 0 THEN resolved
            ELSE enqueueAndWrite(resolved, socket.caller)
    /\ UNCHANGED targetUnused

\* Socket s fails, while connecting or when open: it emits 'error' and then
\* 'close'.  The error handler (lines 68-74) finds isConnecting false after
\* handleConnectionError and leaves the promise of connect() pending; the
\* close handler (lines 80-82) runs handleDisconnection.
socketError(s) ==
    LET socket == targetClient.sockets[s]
        t == handleConnectionError([targetClient EXCEPT !.sockets[s].connectTimeout = FALSE])
        rejected == IF ~t.isConnecting \/ socket.promise # "pending" THEN t
                    ELSE IF socket.caller = 0 THEN [t EXCEPT !.sockets[s].promise = "rejected"]
                    ELSE [settle(t, socket.caller, RejectedWith("Cannot send message")) EXCEPT
                            !.sockets[s].promise = "rejected",
                            !.messages[socket.caller].awaiting = 0]
    IN
    /\ s \in 1..Len(targetClient.sockets)
    /\ socket.status \in {"connecting", "open"}
    /\ targetClient' = handleDisconnection(closed(rejected, s))
    /\ UNCHANGED targetUnused

\* Socket s emits 'close' without an error: the peer closed the connection,
\* or the socket was destroyed by disconnect().
socketClose(s) ==
    /\ s \in 1..Len(targetClient.sockets)
    /\ targetClient.sockets[s].status \in {"open", "destroyed"}
    /\ targetClient' = handleDisconnection(closed(targetClient, s))
    /\ UNCHANGED targetUnused

\* The connectTimeout timer of the connect() that created socket s fires
\* (lines 57-60); the sendMessage awaiting that connect() throws.
connectTimeout(s) ==
    LET socket == targetClient.sockets[s]
        t == handleConnectionError([targetClient EXCEPT !.sockets[s].connectTimeout = FALSE])
        rejected == [t EXCEPT !.sockets[s].promise = "rejected"]
    IN
    /\ s \in 1..Len(targetClient.sockets)
    /\ socket.connectTimeout
    /\ targetClient' =
            IF socket.promise # "pending" THEN t
            ELSE IF socket.caller = 0 THEN rejected
            ELSE [settle(rejected, socket.caller, RejectedWith("Cannot send message")) EXCEPT
                    !.messages[socket.caller].awaiting = 0]
    /\ UNCHANGED targetUnused

\* TargetClient.disconnect(), up to the return of its promise
disconnect ==
    LET t == [rejectQueued(targetClient, targetClient.messageQueue, "Client is shutting down")
                EXCEPT !.isShuttingDown = TRUE, !.messageQueue = <<>>]
        destroyed == IF t.socket # 0 /\ t.sockets[t.socket].status \in {"connecting", "open"}
                     THEN [t EXCEPT !.sockets[t.socket].status = "destroyed"] ELSE t
    IN
    /\ destroyed # targetClient
    /\ targetClient' = destroyed
    /\ UNCHANGED targetUnused

\* Socket s emits 'data' with the next n bytes (lines 76-78).
socketData(s, n) ==
    LET socket == targetClient.sockets[s]
        data == SubSeq(socket.wire, 1, n)
        t == [targetClient EXCEPT !.sockets[s].wire = SubSeq(socket.wire, n + 1, Len(socket.wire))]
    IN
    /\ s \in 1..Len(targetClient.sockets)
    /\ socket.status = "open"
    /\ n \in 1..Len(socket.wire)
    /\ targetClient' = handleData(t, toString(data))
    /\ UNCHANGED targetUnused

\* The client and the server are not used.
RpcUnused ==
    /\ transport = "memory"
    /\ Constructed("default", NoOtherClient)
    /\ calls = <<>>
    /\ nextRequestId = 1
    /\ pendingRequests = EmptyMap
    /\ timers = {}
    /\ isShuttingDown = FALSE
    /\ shutdowns = <<>>
    /\ disconnects = 0
    /\ sent = 0
    /\ serverJobs = {}
    /\ uncaught = FALSE
    /\ warned = "none"
    /\ fallback = FALSE
    /\ serverMessage = NoMessage
    /\ serverPc = "idle"
    /\ handlerCalls = 0
    /\ fallbackCalls = 0
    /\ returned = NothingReturned

\* the options a TargetClient is constructed with: the defaults, or a
\* maxReconnectAttempts of 1 as in the unavailability test
TargetClientOptions ==
    {[DefaultTargetClientOptions EXCEPT !.maxReconnectAttempts = n] :
        n \in {1, DefaultMaxReconnectAttempts}}

\* A TargetClient on its own.
TargetInit ==
    /\ RpcUnused
    /\ \E options \in TargetClientOptions : targetClient = NewTargetClient(options)
    /\ proxyServer = NewProxyServer
    /\ framer = NoFramer
    /\ emitter = NewEmitter
    /\ responseHandler = NewResponseHandler(NoText)

TargetNext ==
    \/ sendMessage
    \/ \E m \in 1..MaxMessages : messageTimeout(m)
    \/ \E r \in 1..Len(targetClient.reconnects) : reconnectTimer(r)
    \/ \E s \in 1..MaxSockets : socketConnect(s)
    \/ \E s \in 1..MaxSockets : socketError(s)
    \/ \E s \in 1..MaxSockets : socketClose(s)
    \/ \E s \in 1..MaxSockets : connectTimeout(s)
    \/ disconnect
    \/ \E s \in 1..MaxSockets, n \in 1..(2 * MaxMessages) : socketData(s, n)

TargetSpec == TargetInit /\ [][TargetNext]_vars

\* -------------------------------------------------------------- ProxyServer
\* everything but the ProxyServer
proxyUnused == <<rpcSide, targetClient, framer, emitter, responseHandler>>

\* processMessage (lines 151-165) up to its await: options.onMessage is
\* invoked with the message
processMessage(p, message, rest, ordinal) ==
    [p EXCEPT !.onMessageCalls = Append(@, message),
              !.loops = Append(@, [message |-> message, rest |-> rest, ordinal |-> ordinal])]

\* The client socket emits 'data' with the next n bytes (lines 123-125):
\* handleClientData up to its first await, or to its end when the chunk
\* completes no message.
clientData(n) ==
    LET data == SubSeq(proxyServer.wire, 1, n)
        framed == frame(proxyServer.buffer, toString(data))
        p == [proxyServer EXCEPT !.wire = SubSeq(@, n + 1, Len(@)),
                                 !.buffer = framed.buffer,
                                 !.received = @ + Len(framed.messages)]
    IN
    /\ n \in 1..Len(proxyServer.wire)
    /\ proxyServer.conns[1].status = "open"
    /\ proxyServer' =
            IF framed.messages = <<>> THEN p
            ELSE processMessage(p, Head(framed.messages), Tail(framed.messages),
                                proxyServer.received + 1)
    /\ UNCHANGED proxyUnused

\* what the onMessage handler does with a message: it returns a reply,
\* returns null, or throws
OnMessageOutcomes == {"reply", "null", "throw"}

\* sendToClient (lines 167-176): the reply is written to the client's socket;
\* what is written to a socket that was destroyed is discarded
sendToClient(p, loop) ==
    IF p.conns[1].status = "open"
    THEN [p EXCEPT !.replies = Append(@, loop.message),
                   !.replyOrder = Append(@, loop.ordinal)]
    ELSE p

\* mutant: processMessage has no try/catch, so a handler that throws ends the
\* loop of handleClientData and nothing is emitted
onMessageSettles_ThrowEndsLoop(l, h) ==
    LET loop == proxyServer.loops[l]
        others == [i \in 1..(Len(proxyServer.loops) - 1) |->
                        IF i < l THEN proxyServer.loops[i] ELSE proxyServer.loops[i + 1]]
        written == IF h = "reply" THEN sendToClient(proxyServer, loop) ELSE proxyServer
        p == [written EXCEPT !.loops = others]
    IN
    /\ l \in 1..Len(proxyServer.loops)
    /\ proxyServer' =
            IF loop.rest = <<>> \/ h = "throw" THEN p
            ELSE processMessage(p, Head(loop.rest), Tail(loop.rest), loop.ordinal + 1)
    /\ UNCHANGED proxyUnused

\* The onMessage promise awaited by the l-th suspended handleClientData
\* settles with h: processMessage finishes (lines 157-164), and the loop
\* of handleClientData goes on to its next message or ends.
onMessageSettles(l, h) ==
    LET loop == proxyServer.loops[l]
        others == [i \in 1..(Len(proxyServer.loops) - 1) |->
                        IF i < l THEN proxyServer.loops[i] ELSE proxyServer.loops[i + 1]]
        written == IF h = "reply" THEN sendToClient(proxyServer, loop) ELSE proxyServer
        p == [written EXCEPT
                !.messageErrors = IF h = "throw" THEN Append(@, loop.message) ELSE @,
                !.loops = others]
    IN
    /\ l \in 1..Len(proxyServer.loops)
    /\ proxyServer' =
            IF loop.rest = <<>> THEN p
            ELSE processMessage(p, Head(loop.rest), Tail(loop.rest), loop.ordinal + 1)
    /\ UNCHANGED proxyUnused

\* ------------------------------------------------- ProxyServer: life cycle
\* mutant: handleClientConnection does not test isShuttingDown
handleClientConnection_AcceptsAlways(p) ==
    LET c == Len(p.conns) + 1
    IN  [p EXCEPT !.conns = Append(@, [status |-> "open", added |-> TRUE]),
                  !.clients = @ \cup {c}]

\* handleClientConnection(socket), lines 105-135: while shutting down the
\* socket is destroyed, otherwise the client is put into the table
handleClientConnection(p) ==
    LET c == Len(p.conns) + 1
    IN  IF p.isShuttingDown
        THEN [p EXCEPT !.conns = Append(@, [status |-> "destroyed", added |-> FALSE])]
        ELSE [p EXCEPT !.conns = Append(@, [status |-> "open", added |-> TRUE]),
                       !.clients = @ \cup {c}]

\* handleClientDisconnect(client), lines 178-183
handleClientDisconnect(p, c) == [p EXCEPT !.clients = @ \ {c}]

\* client.socket.destroy() for every client of the table (lines 79-81)
destroyClients(p) ==
    [p EXCEPT !.conns = [c \in DOMAIN p.conns |->
                            IF c \in p.clients /\ p.conns[c].status = "open"
                            THEN [p.conns[c] EXCEPT !.status = "destroyed"]
                            ELSE p.conns[c]]]

\* The server emits 'connection': a client has connected.  A connection can
\* be delivered as long as the server exists.
clientConnects ==
    /\ Len(proxyServer.conns) < MaxClients
    /\ proxyServer.server # "null"
    /\ proxyServer' = handleClientConnection(proxyServer)
    /\ UNCHANGED proxyUnused

\* A socket emits 'close' (lines 127-129): the client has gone, or the socket
\* was destroyed.
clientCloses(c) ==
    /\ c \in 1..Len(proxyServer.conns)
    /\ proxyServer.conns[c].status \in {"open", "destroyed"}
    /\ proxyServer' = handleClientDisconnect(
                            [proxyServer EXCEPT !.conns[c].status = "closed"], c)
    /\ UNCHANGED proxyUnused

\* stop(), lines 71-93, up to the return of its promise
stop ==
    /\ Len(proxyServer.stops) < MaxStops
    /\ proxyServer' =
            IF proxyServer.server = "null"
            THEN [proxyServer EXCEPT !.stops = Append(@, "resolved")]
            ELSE [destroyClients(proxyServer) EXCEPT
                        !.isShuttingDown = TRUE,
                        !.clients = {},
                        !.server = "closing",
                        !.stops = Append(@, "closing")]
    /\ UNCHANGED proxyUnused

\* The server emits 'close', once no connection is left: the callbacks given
\* to close() run up to their await cleanupSocket() (lines 85-87)
serverCloses ==
    /\ proxyServer.server = "closing"
    /\ \A c \in 1..Len(proxyServer.conns) : proxyServer.conns[c].status # "open"
    /\ proxyServer' = [proxyServer EXCEPT
            !.server = "null",
            !.stops = [k \in DOMAIN @ |-> IF @[k] = "closing" THEN "cleanup" ELSE @[k]]]
    /\ UNCHANGED proxyUnused

\* cleanupSocket() has settled: the promise of the k-th stop() resolves
\* (lines 88-90)
stopResolves(k) ==
    /\ k \in 1..Len(proxyServer.stops)
    /\ proxyServer.stops[k] = "cleanup"
    /\ proxyServer' = [proxyServer EXCEPT !.stops[k] = "resolved"]
    /\ UNCHANGED proxyUnused

\* isRunning(), lines 189-191: a server whose close() was called is not
\* listening
isRunning(p) == p.server = "listening"

\* getConnectedClients(), lines 185-187
getConnectedClients(p) == p.clients

\* what the first client writes: up to MaxStream bytes of text and newlines
ClientStreams == UNION {[1..n -> {"a", "\n"}] : n \in 0..MaxStream}

\* A started ProxyServer with one client; further clients connect, clients
\* write and leave, and the server is stopped.
ProxyInit ==
    /\ RpcUnused
    /\ targetClient = NewTargetClient(DefaultTargetClientOptions)
    /\ emitter = NewEmitter
    /\ responseHandler = NewResponseHandler(NoText)
    /\ framer = NoFramer
    /\ \E stream \in ClientStreams : proxyServer = [NewProxyServer EXCEPT !.wire = stream]

ProxyNext ==
    \/ clientConnects
    \/ \E c \in 1..MaxClients : clientCloses(c)
    \/ stop
    \/ serverCloses
    \/ \E k \in 1..MaxStops : stopResolves(k)
    \/ \E n \in 1..MaxStream : clientData(n)
    \/ \E l \in 1..MaxStream, h \in OnMessageOutcomes : onMessageSettles(l, h)

ProxySpec == ProxyInit /\ [][ProxyNext]_vars

\* ------------------------------------------------------------------ framing
\* the byte streams of up to MaxStream bytes
ByteStreams == UNION {[1..n -> Bytes] : n \in 0..MaxStream}

\* a connected TargetClient that has sent MaxStream messages, and whose peer
\* has written stream
ConnectedTargetClient(stream) ==
    [NewTargetClient(DefaultTargetClientOptions) EXCEPT
        !.sockets = <<[NewSocket(0) EXCEPT !.status = "open", !.connectTimeout = FALSE,
                                               !.promise = "resolved", !.wire = stream]>>,
        !.socket = 1, !.isConnected = TRUE,
        !.messages = [m \in 1..MaxStream |-> [NewMessage EXCEPT !.timer = TRUE, !.socket = 1]],
        !.messageQueue = [m \in 1..MaxStream |-> m]]

\* One of the two framers receives a byte stream, cut into chunks in any way.
FramingInit ==
    /\ RpcUnused
    /\ emitter = NewEmitter
    /\ responseHandler = NewResponseHandler(NoText)
    /\ \E receiver \in {"target", "proxy"}, stream \in ByteStreams :
            /\ framer = [receiver |-> receiver, stream |-> stream]
            /\ IF receiver = "target" THEN
                    /\ targetClient = ConnectedTargetClient(stream)
                    /\ proxyServer = NewProxyServer
               ELSE
                    /\ targetClient = NewTargetClient(DefaultTargetClientOptions)
                    /\ proxyServer = [NewProxyServer EXCEPT !.wire = stream]

FramingNext ==
    \/ \E n \in 1..MaxStream : socketData(1, n)
    \/ \E n \in 1..MaxStream : clientData(n)
    \/ \E l \in 1..MaxStream, h \in OnMessageOutcomes : onMessageSettles(l, h)

FramingSpec == FramingInit /\ [][FramingNext]_vars

\* ---------------------------------------------------------- IsoEventEmitter
\* The callbacks a user subscribes.  A callback is a function of the user: it
\* may call back into the emitter that invoked it.
\*   a       does nothing to the emitter
\*   once    unsubscribes itself from the event it was invoked for
\*   adds    subscribes a to the event it was invoked for
\*   clears  calls unsubscribeAll for the event it was invoked for
\*   throws  throws an Error
Callbacks == {"a", "once", "adds", "clears", "throws"}
Args == {"ping", "pong"}

\* this.callbacks is {}: a name that is no own property is looked up on
\* Object.prototype, where "constructor" is the function Object
ObjectPrototypeKeys == {"constructor"}

\* this.callbacks[event]: the own array, an inherited function (Object, whose
\* length is 1 and which has no push and no iterator), or undefined
Get(callbacks, event) ==
    IF callbacks[event].own THEN
        [kind |-> "array", length |-> Len(callbacks[event].array), array |-> callbacks[event].array]
    ELSE IF event \in ObjectPrototypeKeys THEN
        [kind |-> "function", length |-> 1, array |-> <<>>]
    ELSE [kind |-> "undefined", length |-> 0, array |-> <<>>]

\* this.callbacks[event] = array
Put(callbacks, event, array) ==
    [callbacks EXCEPT ![event] = [own |-> TRUE, array |-> array]]

\* what an operation leaves and gives back
Done(callbacks, value) == [callbacks |-> callbacks, threw |-> "none", value |-> value, invoked |-> <<>>]
Throws(callbacks, class) == [callbacks |-> callbacks, threw |-> class, value |-> 0, invoked |-> <<>>]

\* subscribe(event, callback), lines 21-24
subscribe(callbacks, event, callback) ==
    LET current == Get(callbacks, event)
    IN  IF current.kind = "function" THEN Throws(callbacks, "TypeError")
        ELSE Done(Put(callbacks, event, Append(current.array, callback)), 0)

\* the loop of unsubscribe (lines 28-32), from index i down: splice(i, 1)
\* where the entry is the callback
RECURSIVE splice(_, _, _)
splice(array, i, callback) ==
    IF i < 1 THEN array
    ELSE splice(IF array[i] = callback
                THEN SubSeq(array, 1, i - 1) \o SubSeq(array, i + 1, Len(array))
                ELSE array,
                i - 1, callback)

\* unsubscribe(event, callback), lines 26-33
unsubscribe(callbacks, event, callback) ==
    LET current == Get(callbacks, event)
    IN  IF current.kind = "function" THEN Done(callbacks, 0)
        ELSE Done(Put(callbacks, event, splice(current.array, Len(current.array), callback)), 0)

\* unsubscribeAll(event), lines 35-42
unsubscribeAll(callbacks, event) ==
    LET current == Get(callbacks, event)
    IN  IF current.kind = "undefined" THEN Done(callbacks, 0)
        ELSE Done(Put(callbacks, event, <<>>), current.length)

\* listenerCount(event), lines 44-46
listenerCount(callbacks, event) == Get(callbacks, event).length

\* the body of a callback, invoked for the event
run(callbacks, event, callback) ==
    CASE callback = "once" -> unsubscribe(callbacks, event, callback).callbacks
      [] callback = "adds" -> subscribe(callbacks, event, "a").callbacks
      [] callback = "clears" -> unsubscribeAll(callbacks, event).callbacks
      [] OTHER -> callbacks

\* The for-of loop of emit (lines 16-18) from position i.  The loop walks the
\* array object that emit read from this.callbacks[event]: as long as that
\* object is still the one stored there (local.live) the loop sees what the
\* callbacks push and splice; once unsubscribeAll has stored a new array, the
\* loop goes on over the old one.
RECURSIVE forOf(_, _, _, _, _, _)
forOf(callbacks, event, args, local, i, invoked) ==
    LET array == IF local.live THEN callbacks[event].array ELSE local.array
    IN  IF i > Len(array) THEN
            [callbacks |-> callbacks, threw |-> "none", value |-> 0, invoked |-> invoked]
        ELSE
            LET callback == array[i]
                now == Append(invoked, [callback |-> callback, args |-> args])
            IN  IF callback = "throws" THEN
                    [callbacks |-> callbacks, threw |-> "Error", value |-> 0, invoked |-> now]
                ELSE
                    forOf(run(callbacks, event, callback), event, args,
                          IF local.live /\ callback = "clears"
                          THEN [live |-> FALSE, array |-> array] ELSE local,
                          i + 1, now)

\* emit(event, ...args), lines 13-19
emit(callbacks, event, args) ==
    LET current == Get(callbacks, event)
    IN  IF current.kind = "undefined" THEN Done(callbacks, 0)
        ELSE IF current.kind = "function" THEN Throws(callbacks, "TypeError")
        ELSE forOf(callbacks, event, args, [live |-> TRUE, array |-> <<>>], 1, <<>>)

\* everything but the emitter
emitterUnused == <<rpcSide, targetClient, proxyServer, framer, responseHandler>>

\* the emitter after an operation
After(op, event, result) ==
    [callbacks |-> result.callbacks,
     invoked |-> result.invoked,
     outcome |-> [op |-> op, event |-> event,
                  kind |-> IF result.threw = "none" THEN "returned" ELSE result.threw,
                  value |-> result.value]]

\* the subscriptions stored in the emitter
Subscriptions(callbacks) ==
    Len(callbacks["message"].array) + Len(callbacks["close"].array)
        + Len(callbacks["constructor"].array)

\* the user calls subscribe
userSubscribes(event, callback) ==
    /\ Subscriptions(emitter.callbacks) < MaxSubscriptions
    /\ emitter' = After("subscribe", event, subscribe(emitter.callbacks, event, callback))
    /\ UNCHANGED emitterUnused

\* the user calls unsubscribe
userUnsubscribes(event, callback) ==
    /\ emitter' = After("unsubscribe", event, unsubscribe(emitter.callbacks, event, callback))
    /\ UNCHANGED emitterUnused

\* the user calls unsubscribeAll
userUnsubscribesAll(event) ==
    /\ emitter' = After("unsubscribeAll", event, unsubscribeAll(emitter.callbacks, event))
    /\ UNCHANGED emitterUnused

\* the user calls emit
userEmits(event, args) ==
    /\ Subscriptions(emit(emitter.callbacks, event, args).callbacks) <= MaxSubscriptions
    /\ emitter' = After("emit", event, emit(emitter.callbacks, event, args))
    /\ UNCHANGED emitterUnused

EmitterInit ==
    /\ RpcUnused
    /\ OtherComponentsUnused

EmitterNext ==
    \/ \E event \in EventNames, callback \in Callbacks : userSubscribes(event, callback)
    \/ \E event \in EventNames, callback \in Callbacks : userUnsubscribes(event, callback)
    \/ \E event \in EventNames : userUnsubscribesAll(event)
    \/ \E event \in EventNames, args \in Args : userEmits(event, args)

EmitterSpec == EmitterInit /\ [][EmitterNext]_vars

\* ---------------------------------------------------------- ResponseHandler
\* String.prototype.toLowerCase, on the letters that occur
toLowerCase(text) == [i \in 1..Len(text) |-> IF text[i] = "C" THEN "c" ELSE text[i]]

\* String.prototype.startsWith
startsWith(text, prefix) ==
    Len(text) >= Len(prefix) /\ SubSeq(text, 1, Len(prefix)) = prefix

\* JavaScript truthiness of string | null | undefined
TruthyText(r) == ~r.null /\ r.text # <<>>

\* the built-in commands
Echo == <<"e", "c", "h", "o">>
Ping == <<"p", "i", "n", "g">>
Status == <<"s", "t", "a", "t", "u", "s">>
ProxyStatus == <<"p", "r", "o", "x", "y", "-">> \o Status
Health == <<"h", "e", "a", "l", "t", "h">>

\* ResponseHandler.handleBuiltInCommands: the status and health documents
\* are one piece each
handleBuiltInCommands(message, context) ==
    LET trimmedMessage == toLowerCase(trim(message)) IN
    IF trimmedMessage = Echo \/ startsWith(trimmedMessage, Echo \o <<" ">>) THEN
        Text(<<"ECHO: ">> \o (IF trimmedMessage = Echo THEN Echo
                              ELSE SubSeq(message, 6, Len(message))))
    ELSE IF trimmedMessage = Status \/ trimmedMessage = ProxyStatus THEN
        Text(<<"{status}">>)
    ELSE IF trimmedMessage = Health \/ trimmedMessage = Ping THEN
        Text(<<"{health}">>)
    ELSE NoText

\* ResponseHandler.messageMatches
messageMatches(message, responseId) ==
    LET trimmedMessage == toLowerCase(trim(message))
        lowerId == toLowerCase(responseId)
    IN trimmedMessage = lowerId \/ startsWith(trimmedMessage, lowerId \o <<" ">>)

\* { ...base, ...additionalVars }: a key of base keeps its place and takes
\* the new value, a new key is added at the end
RECURSIVE spread(_, _)
spread(base, additionalVars) ==
    IF additionalVars = <<>> THEN base
    ELSE LET entry == Head(additionalVars)
             known == \E i \in 1..Len(base) : base[i].key = entry.key
         IN spread(IF known
                   THEN [i \in 1..Len(base) |->
                            IF base[i].key = entry.key THEN entry ELSE base[i]]
                   ELSE Append(base, entry),
                   Tail(additionalVars))

\* result.replace(new RegExp('\\$\\{key\\}', 'g'), String(value))
RECURSIVE replace(_, _, _)
replace(result, key, value) ==
    IF result = <<>> THEN <<>>
    ELSE (IF Head(result) = "${" \o key \o "}" THEN value ELSE <<Head(result)>>)
         \o replace(Tail(result), key, value)

RECURSIVE replaceEach(_, _)
replaceEach(result, variables) ==
    IF variables = <<>> THEN result
    ELSE replaceEach(replace(result, Head(variables).key, Head(variables).value),
                     Tail(variables))

\* ResponseHandler.substituteVariables(template, context, additionalVars);
\* the clock's values are one piece each
substituteVariables(template, context, additionalVars) ==
    LET variables ==
            spread(<<[key |-> "message", value |-> context.message],
                     [key |-> "clientId", value |-> <<context.clientId>>],
                     [key |-> "timestamp", value |-> <<"{timestamp}">>],
                     [key |-> "messageCount", value |-> <<ToString(context.messageCount)>>],
                     [key |-> "date", value |-> <<"{date}">>],
                     [key |-> "time", value |-> <<"{time}">>]>>,
                   additionalVars)
    IN replaceEach(template, variables)

\* the first template in insertion order that matches the message, 0 if none
firstMatch(h, message) ==
    LET matching == {i \in 1..Len(h.responses) : messageMatches(message, h.responses[i].id)}
    IN IF matching = {} THEN 0
       ELSE CHOOSE i \in matching : \A j \in matching : i <= j

\* ResponseHandler.handleConfiguredResponse: the handler afterwards and the
\* value returned
handleConfiguredResponse(h, message, context) ==
    LET cacheKey == message
        found == firstMatch(h, message)
    IN IF MapHas(h.responseCache, cacheKey) THEN
            [handler |-> h,
             result |-> Text(substituteVariables(MapGet(h.responseCache, cacheKey),
                                                 context, <<>>))]
       ELSE IF found # 0 THEN
            LET response == h.responses[found] IN
            [handler |-> [h EXCEPT !.responseCache = MapSet(@, cacheKey, response.template)],
             result |-> Text(substituteVariables(response.template, context,
                                                 response.variables))]
       ELSE [handler |-> h, result |-> NoText]

\* ResponseHandler.generateResponse(message, clientId)
generateResponse(h, message, clientId) ==
    LET counted == [h EXCEPT !.messageCount = @ + 1]
        context == [message |-> message, clientId |-> clientId,
                    messageCount |-> counted.messageCount]
        builtInResponse == handleBuiltInCommands(message, context)
        configured == handleConfiguredResponse(counted, message, context)
        returns(handler, response) ==
            [handler EXCEPT !.returned = [message |-> message, clientId |-> clientId,
                                          response |-> response]]
    IN IF TruthyText(builtInResponse) THEN returns(counted, builtInResponse)
       ELSE IF TruthyText(configured.result) THEN
            returns(configured.handler, configured.result)
       ELSE IF TruthyText(h.defaultResponse) THEN
            returns(configured.handler,
                    Text(substituteVariables(h.defaultResponse.text, context, <<>>)))
       ELSE returns(configured.handler, NoText)

\* ResponseHandler.clearCache
clearCache(h) == [h EXCEPT !.responseCache = EmptyMap]

\* ResponseHandler.addResponse(id, template, variables): Map.set keeps the
\* place of an id that is already there
addResponse(h, id, template, variables) ==
    LET response == [id |-> id, template |-> template, variables |-> variables]
        known == \E i \in 1..Len(h.responses) : h.responses[i].id = id
    IN clearCache([h EXCEPT !.responses =
                        IF known
                        THEN [i \in 1..Len(@) |-> IF @[i].id = id THEN response ELSE @[i]]
                        ELSE Append(@, response)])

\* ResponseHandler.removeResponse(id)
removeResponse(h, id) ==
    clearCache([h EXCEPT !.responses = SelectSeq(@, LAMBDA r : r.id # id)])

\* everything but the ResponseHandler
responseUnused == <<rpcSide, targetClient, proxyServer, framer, emitter>>

\* the ids, templates, additional variables, messages and clients in use
ResponseIds == {<<"c">>, <<"C">>, <<"c", " ", "x">>}
Templates == {<<>>, <<"text">>, <<"${name}", "${message}">>}
AdditionalVars == {<<>>, <<[key |-> "name", value |-> <<"John">>]>>}
Messages == {<<"c">>, <<" ", "C">>, <<"c", " ", "x">>, <<"x">>, Ping}
ClientIds == {"client1", "client2"}
DefaultResponses == {NoText, Text(<<"${clientId}">>)}

userAddsResponse(id, template, variables) ==
    /\ \/ Len(responseHandler.responses) < MaxTemplates
       \/ \E i \in 1..Len(responseHandler.responses) : responseHandler.responses[i].id = id
    /\ responseHandler' = addResponse(responseHandler, id, template, variables)
    /\ UNCHANGED responseUnused

userRemovesResponse(id) ==
    /\ responseHandler' = removeResponse(responseHandler, id)
    /\ UNCHANGED responseUnused

userGenerates(message, clientId) ==
    /\ responseHandler.messageCount < MaxGenerated
    /\ responseHandler' = generateResponse(responseHandler, message, clientId)
    /\ UNCHANGED responseUnused

userClearsCache ==
    /\ responseHandler' = clearCache(responseHandler)
    /\ UNCHANGED responseUnused

\* A ResponseHandler on its own.
ResponseInit ==
    /\ RpcUnused
    /\ targetClient = NewTargetClient(DefaultTargetClientOptions)
    /\ proxyServer = NewProxyServer
    /\ framer = NoFramer
    /\ emitter = NewEmitter
    /\ \E defaultResponse \in DefaultResponses :
            responseHandler = NewResponseHandler(defaultResponse)

ResponseNext ==
    \/ \E id \in ResponseIds, template \in Templates, variables \in AdditionalVars :
            userAddsResponse(id, template, variables)
    \/ \E id \in ResponseIds : userRemovesResponse(id)
    \/ \E message \in Messages, clientId \in ClientIds : userGenerates(message, clientId)
    \/ userClearsCache

ResponseSpec == ResponseInit /\ [][ResponseNext]_vars

\* ------------------------------------------------------------ specification
Next ==
    \/ \E method \in CallableNames, params \in {"valid", "invalid"}, options \in CallOptions :
            call(method, params, options)
    \/ \E t \in timers : requestTimeout(t)
    \/ \E raw \in RawMessages : receive(raw)
    \/ \E job \in serverJobs, h \in HandlerOutcomes : serverReply(job, h)
    \/ gracefulShutdown
    \/ \E s \in 1..MaxShutdowns : shutdownDrained(s)
    \/ \E s \in 1..MaxShutdowns : shutdownTimedOut(s)
    \/ \E s \in 1..MaxShutdowns : disconnected(s)

Spec == Init /\ [][Next]_vars

\* -------------------------------------- id generators and shared transports
\* a client constructed with a generateRequestId of the caller
CustomIdInit ==
    /\ Constructed("custom", NoOtherClient)
    /\ Fresh

CustomIdSpec == CustomIdInit /\ [][Next]_vars

\* The second client on the transport calls a method: its default generator
\* draws its next id and the request is sent (client.ts:105-133).
otherClientCalls ==
    /\ otherClient.present
    /\ otherClient.nextRequestId <= MaxCalls
    /\ otherClient' = [otherClient EXCEPT
            !.nextRequestId = @ + 1,
            !.awaiting = @ \cup {NumId(otherClient.nextRequestId)}]
    /\ UNCHANGED <<otherComponents, serverVars, transport, generateRequestId, clientVars, shutdowns,
                   disconnects, serverJobs, uncaught, warned>>

\* The response to a request of the second client is published on the
\* transport's receive channel: the handleResponse of every client subscribed
\* to it (client.ts:88) is invoked with it.
otherClientAnswered(id) ==
    /\ id \in otherClient.awaiting
    /\ otherClient' = [otherClient EXCEPT !.awaiting = @ \ {id}]
    /\ handleResponse(Obj("2.0", id, "obj", "absent"))
    /\ UNCHANGED <<otherComponents, serverVars, transport, generateRequestId, nextRequestId,
                   isShuttingDown, shutdowns, disconnects, sent, serverJobs>>

\* two clients constructed on the same transport
SharedInit ==
    /\ Constructed("default", [NoOtherClient EXCEPT !.present = TRUE])
    /\ Fresh

SharedNext ==
    \/ Next
    \/ otherClientCalls
    \/ \E id \in IssuableIds : otherClientAnswered(id)

SharedSpec == SharedInit /\ [][SharedNext]_vars

\* Timers fire: an armed request timer and an armed shutdown timer run their
\* callbacks unless cleared first, and the polling interval keeps ticking.
Fairness ==
    /\ \A c \in 1..MaxCalls, ms \in {DefaultRequestTimeout} \cup {o.timeout : o \in CallOptions} :
            WF_vars(requestTimeout([call |-> c, ms |-> ms]))
    /\ \A s \in 1..MaxShutdowns : WF_vars(shutdownTimedOut(s))
    /\ \A s \in 1..MaxShutdowns : WF_vars(disconnected(s))

LiveSpec == Init /\ [][Next]_vars /\ Fairness

\* ------------------------------------------------------------------ claims
Calls == 1..Len(calls)

\* call c passed the checks of call() and registered a pending record
Registered(c) == calls[c].id # NoId

ByResponse == {"resolved", "invalidResult", "rpcError"}

IsPending(c) == MapHas(pendingRequests, calls[c].id)

\* C1: every call that registered a pending record is settled by exactly one of
\* a matched response, its timeout and the shutdown's force-cancel: resolve or
\* reject is never invoked twice for it, its record is in the table exactly
\* while it is unsettled, and it does not stay unsettled forever.
C1_SettledExactlyOnce ==
    /\ [](\A c \in Calls : Registered(c) =>
            /\ calls[c].settles <= 1
            /\ (calls[c].settles = 0) <=> IsPending(c)
            /\ (calls[c].settles = 1) =>
                    calls[c].out.by \in ByResponse \cup {"timeout", "cancelled"})
    /\ \A c \in 1..MaxCalls :
            (c <= Len(calls) /\ Registered(c)) ~> (c <= Len(calls) /\ calls[c].settles = 1)

\* two calls, one settled by its timeout and one by the force-cancel, and a
\* response that came too late was dropped
C1_Witness ==
    /\ warned = "unknownId"
    /\ \E c1, c2 \in Calls :
            /\ calls[c1].out.by = "timeout" /\ calls[c1].settles = 1
            /\ calls[c2].out.by = "cancelled" /\ calls[c2].settles = 1

C3_UnknownIdDropped ==
    [][\A raw \in RawMessages :
        ~MapHas(pendingRequests, raw.id) =>
            \/ UNCHANGED <<pendingRequests, timers, calls>> /\ ~uncaught'
            \/ ~receive(raw)]_vars

\* a response was dropped for its unknown id while another call was pending
\* with its timer armed, after one call had timed out
C3_Witness ==
    /\ warned = "unknownId"
    /\ \E c \in Calls : calls[c].out.by = "timeout"
    /\ \E c \in Calls : IsPending(c) /\ pendingRequests[calls[c].id].timeout \in timers

\* C4: when the timer of a call fires while its record is pending, the call
\* rejects with a timeout error and the record is removed; nothing that
\* happens later (such as its response arriving) changes the call.
C4_TimeoutRejects ==
    [][/\ \A t \in timers : (requestTimeout(t) /\ IsPending(t.call)) =>
                /\ calls'[t.call].out.by = "timeout"
                /\ calls'[t.call].settles = 1
                /\ ~MapHas(pendingRequests', calls[t.call].id)
       /\ \A c \in Calls : calls[c].out.by = "timeout" => calls'[c] = calls[c]]_vars

\* a call armed with the per-call timeout timed out, and a response arrived
\* after that and was dropped
C4_Witness ==
    /\ warned = "unknownId"
    /\ \E c \in Calls : calls[c].out.by = "timeout" /\ ~IsPending(c)
    /\ timers = {}

Shutdowns == 1..Len(shutdowns)

\* gracefulShutdown s is past `await shutdownPromise`
Resumed(s) == shutdowns[s].pc \in {"disconnecting", "done"}

\* C5: gracefulShutdown gets past its wait only with the pending table empty;
\* a call is rejected with the shutdown error only by a shutdown whose timeout
\* elapsed, so calls answered before that keep their own response.
C5_DrainKeepsResponses ==
    /\ \A s \in Shutdowns : Resumed(s) => DOMAIN pendingRequests = {}
    /\ \A c \in Calls :
            /\ calls[c].out.by = "cancelled" => \E s \in Shutdowns : shutdowns[s].how = "timeout"
            /\ calls[c].out.by \in ByResponse => calls[c].out.resp = calls[c].id

\* one call was pending when gracefulShutdown began, its response arrived
\* during the wait, and the shutdown completed after the table had drained
C5_Witness ==
    /\ Len(calls) = 1 /\ calls[1].out.by = "resolved"
    /\ Len(shutdowns) = 1 /\ shutdowns[1] = [pc |-> "done", how |-> "drained"]

\* C6: when the shutdown timeout elapses, every call still pending is rejected
\* with the shutdown error and its timer is cleared; once gracefulShutdown is
\* past its wait the pending table is empty and no request timer is armed.
C6_TimeoutCancelsAll ==
    /\ [](\A s \in Shutdowns : Resumed(s) => (DOMAIN pendingRequests = {} /\ timers = {}))
    /\ [][\A s \in Shutdowns : shutdownTimedOut(s) =>
            \A c \in Calls : IsPending(c) =>
                /\ calls'[c].out.by = "cancelled"
                /\ calls'[c].settles = 1
                /\ pendingRequests[calls[c].id].timeout \notin timers']_vars

\* the shutdown timeout elapsed with two calls pending and gracefulShutdown
\* has returned
C6_Witness ==
    /\ Len(calls) = 2
    /\ \A c \in Calls : calls[c].out.by = "cancelled"
    /\ \E s \in Shutdowns : shutdowns[s] = [pc |-> "done", how |-> "timeout"]

\* C7: once gracefulShutdown has been invoked the flag stays set; a later
\* call() rejects with the shutting-down error, and nothing is registered,
\* armed or handed to the transport, so the pending table never grows.
C7_NoCallsAfterShutdown ==
    /\ [](Len(shutdowns) > 0 => isShuttingDown)
    /\ [][isShuttingDown =>
            /\ isShuttingDown'
            /\ DOMAIN pendingRequests' \subseteq DOMAIN pendingRequests
            /\ timers' \subseteq timers
            /\ sent' = sent
            /\ nextRequestId' = nextRequestId
            /\ Len(calls') > Len(calls) =>
                    /\ calls'[Len(calls')].out.by = "shuttingDown"
                    /\ calls'[Len(calls')].settles = 1]_vars

\* a call to a registered method made after gracefulShutdown was rejected while
\* an earlier call was still pending
C7_Witness ==
    /\ Len(calls) = 2
    /\ IsPending(1)
    /\ calls[2].out.by = "shuttingDown"

\* C8: with a transport that has a disconnect hook, the hook is invoked exactly
\* once in total however often gracefulShutdown is called, and only with the
\* pending table empty.
C8_DisconnectExactlyOnce ==
    HasDisconnect =>
        /\ disconnects <= 1
        /\ (\E s \in Shutdowns : shutdowns[s].pc = "done") => disconnects = 1
        /\ disconnects >= 1 => DOMAIN pendingRequests = {}

EarlyRejections == {"shuttingDown", "methodNotFound", "invalidParams"}

\* C9: a call resolves only with a value that is the output of its method's
\* result schema; a success response whose result fails the schema rejects the
\* call with the invalid-result error; a call() that fails its own checks
\* returns a rejected future, and nothing is thrown.
C9_OnlyValidatedResults ==
    /\ [](~uncaught)
    /\ [](\A c \in Calls : ~Registered(c) =>
            (calls[c].settles = 1 /\ calls[c].out.by \in EarlyRejections))
    /\ [][\A c \in Calls :
            /\ (calls'[c].out.by = "resolved" /\ calls[c].out.by # "resolved") =>
                    /\ IsPending(c)
                    /\ \/ /\ pendingRequests[calls[c].id].method = "echo"
                          /\ calls'[c].out.value = "obj"
                       \/ /\ pendingRequests[calls[c].id].method = "now"
                          /\ calls'[c].out.value = "date"
            /\ \A raw \in RawMessages :
                    (/\ IsPending(c) /\ raw.id = calls[c].id
                     /\ raw.kind = "object" /\ raw.jsonrpc = "2.0" /\ raw.error = "absent"
                     /\ raw.result \notin {"obj", "objExtra"}
                     /\ receive(raw)) =>
                        /\ calls'[c].out.by = "invalidResult"
                        /\ calls'[c].settles = 1]_vars

\* a success response whose result is not of the method's result shape has
\* rejected one call, and a call to an unregistered method was rejected
C9_Witness ==
    /\ \E c \in Calls : calls[c].out.by = "invalidResult"
    /\ \E c \in Calls : calls[c].out.by = "methodNotFound"

\* C10 as stated: over the in-memory transport, when the handler returns a value
\* that satisfies the result schema and the call's timer has not fired, the call
\* resolves with that value and its pending record is gone.
C10_ResolvesWithHandlerValue ==
    [][\A job \in serverJobs, v \in HandlerValues :
        (/\ serverReply(job, [kind |-> "return", value |-> v])
         /\ ResultSchemaParse(job.method, v).ok
         /\ calls[job.call].out.by # "timeout") =>
            /\ calls'[job.call].out = Resolved(v, job.id)
            /\ ~MapHas(pendingRequests', job.id)]_vars

\* C10 as amended: when the handler returns v while the call's record is still
\* pending (its timer has not fired, no shutdown has cancelled it), the call is
\* settled by the reply and its record is removed.  It resolves with what the
\* client's result schema makes of JSON.parse(JSON.stringify(v)): the value
\* itself for plain data of the schema's shape, the value without the keys the
\* schema does not name, and an invalid-result rejection for a value that
\* satisfies the schema only before the JSON round trip (a Date).
C10_ResolvesWithRoundTrippedValue ==
    [][\A job \in serverJobs, v \in HandlerValues :
        (/\ serverReply(job, [kind |-> "return", value |-> v])
         /\ ResultSchemaParse(job.method, v).ok
         /\ IsPending(job.call)) =>
            /\ calls'[job.call].settles = 1
            /\ ~MapHas(pendingRequests', job.id)
            /\ job.method = "echo" => calls'[job.call].out = Resolved("obj", job.id)
            /\ job.method = "now" => calls'[job.call].out = Rejected("invalidResult", job.id)]_vars

\* over the in-memory transport the first call has resolved with the handler's
\* object and the second is still waiting for its handler
C10_Witness ==
    /\ transport = "memory"
    /\ Len(calls) = 2
    /\ calls[1].out = Resolved("obj", NumId(1))
    /\ \E job \in serverJobs : job.call = 2
    /\ ~IsPending(1) /\ IsPending(2)

\* --------------------------------------------------- claims about the server
\* the dispatcher has returned from handling serverMessage
Finished == serverPc = "idle" /\ serverMessage # NoMessage

\* a message with an id member that has the Request shape
WellFormedRequest(m) == IdIn(m) /\ JsonRpcRequestSchema(m).success

\* an object without an id member that has the Notification shape
WellFormedNotification(m) ==
    m.kind = "object" /\ ~IdIn(m) /\ JsonRpcNotificationSchema(m).success

\* C11: for a well-formed Notification the dispatcher returns null, whether
\* the method is unknown, the params are invalid, the handler returns or the
\* handler throws any value.
C11_NotificationsNeverAnswered ==
    (Finished /\ WellFormedNotification(serverMessage)) => returned = ReturnedNull

\* C12: for a well-formed Request with id i, 0 and "" included, the dispatcher
\* returns a Response whose id is i, whatever the handler returns or throws.
C12_ResponseCarriesRequestId ==
    (Finished /\ WellFormedRequest(serverMessage)) =>
        /\ returned.kind \in {"success", "error"}
        /\ returned.id = serverMessage.id

\* C13: handleRawMessage never throws; for text that is not JSON it returns
\* the ParseError response with id null and invokes no handler.
C13_RawMessageNeverThrows ==
    /\ returned.kind # "threw"
    /\ (Finished /\ serverMessage.kind = "garbage") =>
            /\ returned.kind = "error" /\ returned.code = PARSE_ERROR /\ returned.id = NullId
            /\ handlerCalls = 0

\* C14: for a well-formed Request whose method has no registered handler the
\* dispatcher returns an ErrorResponse with code MethodNotFound, a message
\* naming the method, and the Request's id, for every id.
C14_UnknownMethodIsMethodNotFound ==
    (Finished /\ WellFormedRequest(serverMessage)
              /\ serverMessage.method \notin RequestHandlers) =>
        /\ returned.kind = "error"
        /\ returned.code = METHOD_NOT_FOUND
        /\ returned.message = Message("unable to find method", serverMessage.method)
        /\ returned.id = serverMessage.id

\* C15: for a well-formed Request to a registered method whose params fail the
\* params schema, the handler is not invoked and the response is an
\* ErrorResponse with code InvalidParameters and the Request's id.
C15_InvalidParamsIsInvalidParameters ==
    (WellFormedRequest(serverMessage)
        /\ serverMessage.method \in RequestHandlers
        /\ serverMessage.params # "valid") =>
        /\ handlerCalls = 0
        /\ Finished
        /\ returned.kind = "error"
        /\ returned.code = INVALID_PARAMETERS
        /\ returned.id = serverMessage.id

\* C16: for a message with an id member that fails the Request shape the
\* dispatcher returns an ErrorResponse with code InvalidRequest whose id is
\* the message's id when that is a string or a number and null otherwise;
\* every ErrorResponse has an id that is a string, a number or null.
C16_InvalidRequestKeepsScalarId ==
    /\ (Finished /\ IdIn(serverMessage) /\ ~JsonRpcRequestSchema(serverMessage).success) =>
            /\ returned.kind = "error"
            /\ returned.code = INVALID_REQUEST
            /\ returned.id = IF IsStringOrNumber(serverMessage.id)
                             THEN serverMessage.id ELSE NullId
    /\ returned.kind = "error" => (IsStringOrNumber(returned.id) \/ returned.id = NullId)

\* C17: for a decoded message without an id member that fails the
\* Notification shape the dispatcher returns null.
C17_MalformedNotificationDropped ==
    (Finished /\ serverMessage.kind \in {"object", "array"} /\ ~IdIn(serverMessage)
              /\ ~JsonRpcNotificationSchema(serverMessage).success) =>
        returned = ReturnedNull

\* C18: when the handler of a well-formed Request throws a CustomServerError,
\* the response is an ErrorResponse with that error's code, message and data,
\* whatever request id the error carries.
C18_CustomErrorRoundTrips ==
    [][\A h \in ServerHandlerOutcomes :
        (/\ handlerSettles(h)
         /\ WellFormedRequest(serverMessage)
         /\ h.kind = "throw" /\ h.error.class = "CustomServerError") =>
            /\ returned'.kind = "error"
            /\ returned'.code = h.error.code
            /\ returned'.message = h.error.message
            /\ returned'.data = h.error.data]_vars

\* C19: when the handler of a well-formed Request throws a value outside the
\* taxonomy (an Error, a string, a number, null, undefined), the response is
\* an ErrorResponse with code InternalServerError, the value's message or the
\* generic one, and the Request's id.
C19_ForeignThrowIsInternalError ==
    [][\A h \in ServerHandlerOutcomes :
        (/\ handlerSettles(h)
         /\ WellFormedRequest(serverMessage)
         /\ h.kind = "throw" /\ h.error.class \in {"Error", "string", "falsy"}) =>
            returned' = ErrorResponse(serverMessage.id, INTERNAL_SERVER_ERROR,
                                      IF h.error.class = "Error" THEN h.error.message
                                      ELSE Message("an unknown error occurred", ""),
                                      "absent")]_vars

\* C20: whenever the dispatcher finds no handler for the method of a
\* well-formed Request or Notification, the configured unknownMethodHandler
\* is invoked.
C20_FallbackInvoked ==
    [][\A raw \in ServerMessages :
        (/\ fallback
         /\ \/ WellFormedRequest(raw) /\ raw.method \notin RequestHandlers \cup InheritedProperties
            \/ WellFormedNotification(raw)
                    /\ raw.method \notin NotificationHandlers \cup InheritedProperties
         /\ handleRawMessage(raw)) =>
            fallbackCalls' = fallbackCalls + 1]_vars

\* ------------------------------------------- claims about the stream framers
\* the lines of a text that a newline terminates, in order
CompleteLines(text) == LET pieces == split(text) IN SubSeq(pieces, 1, Len(pieces) - 1)

\* the non-empty newline-terminated lines of the stream's bytes delivered so
\* far, wire being those not yet delivered
NonEmptyLines(wire) ==
    LET delivered == SubSeq(framer.stream, 1, Len(framer.stream) - Len(wire))
    IN SelectSeq(CompleteLines(toString(delivered)), NotBlank)

\* the responses TargetClient.handleData has resolved sendMessage promises
\* with, in the order of the messages
Responses ==
    LET resolved == SelectSeq(targetClient.messages, LAMBDA m : m.out.kind = "resolved")
    IN [i \in 1..Len(resolved) |-> resolved[i].out.response]

\* C21: however the byte stream is cut into chunks, the messages emitted by
\* TargetClient.handleData, and by ProxyServer.handleClientData once its
\* loops have ended, are exactly the non-empty newline-terminated lines of
\* the bytes delivered so far, in stream order.
C21_FramedMessagesAreTheLines ==
    /\ framer.receiver = "target" =>
            Responses = NonEmptyLines(targetClient.sockets[1].wire)
    /\ (framer.receiver = "proxy" /\ proxyServer.loops = <<>>) =>
            proxyServer.onMessageCalls = NonEmptyLines(proxyServer.wire)

\* ---------------------------------------------- claims about the TargetClient
\* the sockets that connect in the step from t to u
Connecting(t, u) ==
    {s \in 1..Len(t.sockets) : t.sockets[s].status = "connecting" /\ u.sockets[s].status = "open"}

\* the reconnect timers armed in the step from t to u
Scheduled(t, u) ==
    IF Len(u.reconnects) > Len(t.reconnects)
    THEN SubSeq(u.reconnects, Len(t.reconnects) + 1, Len(u.reconnects))
    ELSE <<>>

\* C22: counting from the last successful connect, the k-th reconnect attempt
\* is scheduled with delay reconnectDelay * k and at most maxReconnectAttempts
\* attempts are scheduled; maxReconnectAttemptsReached is emitted by a failure
\* at the cap, when the scheduled attempts have been made, and no attempt is
\* scheduled then; a successful connect resets the attempt counter to 0.
C22_LinearBackoffUpToCap ==
    [][LET t == targetClient
           u == targetClient'
           scheduled == Scheduled(t, u)
           before == IF Connecting(t, u) # {} THEN 0 ELSE t.reconnectAttempts
       IN
       /\ u.reconnectAttempts = before + Len(scheduled)
       /\ \A k \in 1..Len(scheduled) :
                /\ scheduled[k].attempt = before + k
                /\ scheduled[k].delay = u.options.reconnectDelay * (before + k)
       /\ u.reconnectAttempts <= u.options.maxReconnectAttempts
       /\ u.maxReconnectAttemptsReached # t.maxReconnectAttemptsReached =>
                /\ t.reconnectAttempts = t.options.maxReconnectAttempts
                /\ scheduled = <<>>
                /\ u.reconnects = <<>>
       /\ Connecting(t, u) # {} => u.reconnectAttempts = 0
      ]_vars

\* the messages in the queue of t
Queued(t) == {t.messageQueue[i] : i \in 1..Len(t.messageQueue)}

\* C23: when a socket of the TargetClient closes, every queued message is
\* rejected with 'Connection lost' and its timer cancelled, and the queue and
\* the read buffer are empty while the reconnect is only scheduled, not
\* started; a queued message is never one that was written to a closed
\* socket, so data of a later connection never resolves such a message.
C23_CloseRejectsAndClears ==
    [][LET t == targetClient
           u == targetClient'
           closing == {s \in 1..Len(t.sockets) :
                            t.sockets[s].status # "closed" /\ u.sockets[s].status = "closed"}
       IN
       /\ closing # {} =>
                /\ \A m \in Queued(t) : /\ u.messages[m].out = RejectedWith("Connection lost")
                                         /\ u.messages[m].settles = 1
                                         /\ ~u.messages[m].timer
                /\ u.messageQueue = <<>>
                /\ u.buffer = <<>>
                /\ Len(u.sockets) = Len(t.sockets)
       /\ \A m \in Queued(u) : /\ u.messages[m].socket # 0
                                /\ u.sockets[u.messages[m].socket].status # "closed"
       /\ \A m \in 1..Len(t.messages) :
                (t.messages[m].out.kind = "pending" /\ u.messages[m].out.kind = "resolved") =>
                    /\ m \in Queued(t)
                    /\ t.sockets[t.messages[m].socket].status # "closed"
      ]_vars

\* a message was rejected because its connection was lost, and a message sent
\* on a later connection has been resolved by data of that connection
C23_Witness ==
    \E m1, m2 \in 1..Len(targetClient.messages) :
        /\ m1 < m2
        /\ targetClient.messages[m1].out = RejectedWith("Connection lost")
        /\ targetClient.messages[m2].out.kind = "resolved"
        /\ Len(targetClient.sockets) >= 2
        /\ targetClient.sockets[1].status = "closed"
        /\ targetClient.sockets[2].status = "open"

\* the text of the line the peer answers the m-th message with
OwnResponse(m) == SubSeq(Answer(m), 1, Len(Answer(m)) - 1)

\* C24: with a peer that answers every message it receives once and in the
\* order received, a sendMessage promise that resolves is resolved with the
\* response to its own message.
C24_ResolvedWithOwnResponse ==
    \A m \in 1..Len(targetClient.messages) :
        targetClient.messages[m].out.kind = "resolved" =>
            targetClient.messages[m].out.response = OwnResponse(m)

\* ------------------------------------------------------------ C25 .. C30
\* the calls that drew a request id, in the order they were made
IdBearing == SelectSeq(calls, LAMBDA c : c.id # NoId)

\* C25: with the default id generator the request ids used by successive
\* calls of one client are 1, 2, 3, ...: the k-th call that draws an id gets
\* the id k, so the ids increase strictly and none is used twice, whether or
\* not earlier calls are still pending.
C25_IdsCountUp ==
    /\ \A k \in 1..Len(IdBearing) : IdBearing[k].id = NumId(k)
    /\ nextRequestId = Len(IdBearing) + 1

\* the first call has been settled and its record removed, and a later call
\* has drawn the next id
C25_Witness ==
    /\ Len(calls) = 2
    /\ calls[1].id = NumId(1) /\ calls[1].out.by = "resolved"
    /\ calls[2].id = NumId(2)
    /\ NumId(1) \notin DOMAIN pendingRequests

\* C29: a call whose params fail the method's params schema rejects before
\* any wire traffic: it draws no request id, registers no pending record, arms
\* no timer and does not invoke transport.send.
C29_InvalidParamsFailFast ==
    [][(/\ Len(calls') = Len(calls) + 1
        /\ calls'[Len(calls')].out.by = "invalidParams") =>
            /\ calls'[Len(calls')].settles = 1
            /\ calls'[Len(calls')].id = NoId
            /\ nextRequestId' = nextRequestId
            /\ pendingRequests' = pendingRequests
            /\ timers' = timers
            /\ sent' = sent
            /\ serverJobs' = serverJobs]_vars

\* a call with invalid params was rejected while an earlier call is pending,
\* and the earlier call's id, record and timer are all there is
C29_Witness ==
    /\ Len(calls) = 2
    /\ calls[1].out = Unsettled /\ calls[1].id = NumId(1)
    /\ calls[2].out.by = "invalidParams"
    /\ nextRequestId = 2
    /\ DOMAIN pendingRequests = {NumId(1)}
    /\ Cardinality(timers) = 1
    /\ sent = 1

\* C30: a call for a method name that is not registered rejects with a
\* MethodNotFoundError, without registering a pending record.
C30_UnknownMethodRejectsWithMethodNotFoundError ==
    \A c \in 1..Len(calls) :
        calls[c].out.by = "methodNotFound" =>
            /\ calls[c].out.error = "MethodNotFoundError"
            /\ calls[c].id = NoId
            /\ \A id \in DOMAIN pendingRequests : pendingRequests[id].call # c

\* the decoded messages that carry both a result member and an error member
BothResultAndError ==
    {raw \in RawMessages : raw.kind = "object" /\ raw.result # "absent" /\ raw.error # "absent"}

\* C26: a decoded message that carries both a result member and an error
\* member is rejected by response validation: handleResponse drops it without
\* settling a pending call, removing a pending record or clearing a timer.
C26_BothResultAndErrorIsDropped ==
    [][\A raw \in BothResultAndError :
            \/ /\ calls' = calls
               /\ pendingRequests' = pendingRequests
               /\ timers' = timers
            \/ ~receive(raw)]_vars

\* the subscriptions registered for an event, in subscription order
RegisteredFor(callbacks, event) ==
    IF callbacks[event].own THEN callbacks[event].array ELSE <<>>

\* C27: unsubscribeAll(e) returns the number of subscriptions registered for
\* e at that moment, leaves e with zero listeners and the subscriptions of
\* every other event unchanged, and a second unsubscribeAll(e) right after it
\* returns 0 without throwing.
C27_UnsubscribeAllCountsAndClears ==
    [][\A e \in EventNames :
        LET again == unsubscribeAll(emitter'.callbacks, e)
        IN  \/ /\ emitter'.outcome.kind = "returned"
               /\ emitter'.outcome.value = Len(RegisteredFor(emitter.callbacks, e))
               /\ listenerCount(emitter'.callbacks, e) = 0
               /\ \A other \in EventNames \ {e} :
                        /\ RegisteredFor(emitter'.callbacks, other) = RegisteredFor(emitter.callbacks, other)
                        /\ listenerCount(emitter'.callbacks, other) = listenerCount(emitter.callbacks, other)
               /\ again.threw = "none" /\ again.value = 0
            \/ ~userUnsubscribesAll(e)]_vars

\* C28: an emit(e, args) that returns has invoked every subscription that was
\* registered for e when it was called, with args and in subscription order
\* (a callback subscribed twice is invoked twice), before anything else it
\* invoked.
C28_EmitInvokesEachSubscriptionOnce ==
    [][\A e \in EventNames, args \in Args :
        LET registered == RegisteredFor(emitter.callbacks, e)
        IN  \/ emitter'.outcome.kind # "returned"
            \/ /\ Len(emitter'.invoked) >= Len(registered)
               /\ \A k \in 1..Len(registered) :
                        emitter'.invoked[k] = [callback |-> registered[k], args |-> args]
            \/ ~userEmits(e, args)]_vars

\* ------------------------------------------------------------ C31 .. C40
\* C31: the timeout error a call is rejected with names the timeout that was
\* armed for that call: the per-call timeout when one was passed, otherwise
\* the client's default.
C31_TimeoutErrorNamesArmedTimeout ==
    [][\A t \in timers :
            \/ calls'[t.call].out.by # "timeout"
            \/ calls[t.call].out.by = "timeout"
            \/ calls'[t.call].out.ms = t.ms
            \/ ~requestTimeout(t)]_vars

\* C32: when a subscriber throws during emit(e, args), the exception leaves
\* emit, the subscribers registered before the thrower have been invoked (in
\* order, with args), those registered after it have not, and - unless an
\* invoked callback itself changed them - the subscription lists are as before.
C32_ThrowingSubscriberStopsEmit ==
    [][\A e \in EventNames, args \in Args :
        LET registered == RegisteredFor(emitter.callbacks, e)
        IN  \/ emitter'.outcome.kind # "Error"
            \/ /\ \E n \in 1..Len(registered) :
                    /\ registered[n] = "throws"
                    /\ \A k \in 1..(n - 1) : registered[k] # "throws"
                    /\ emitter'.invoked = [k \in 1..n |->
                                                [callback |-> registered[k], args |-> args]]
               /\ (\A k \in 1..Len(emitter'.invoked) :
                        emitter'.invoked[k].callback \in {"a", "throws"}) =>
                            emitter'.callbacks = emitter.callbacks
            \/ ~userEmits(e, args)]_vars

\* C39: the replies written to one client are in the order in which that
\* client's messages were received, also when the messages arrive in
\* separate chunks and their onMessage handlers settle in another order.
C39_RepliesInReceiveOrder ==
    \A i, j \in 1..Len(proxyServer.replyOrder) :
        i < j => proxyServer.replyOrder[i] < proxyServer.replyOrder[j]

\* C33: after a stop() has resolved, isRunning() is false and
\* getConnectedClients() is empty; a connection that arrives while the server
\* is shutting down is destroyed and never put into the client table.
C33_StoppedServerHasNoClients ==
    /\ []((\E k \in 1..Len(proxyServer.stops) : proxyServer.stops[k] = "resolved") =>
            /\ ~isRunning(proxyServer)
            /\ getConnectedClients(proxyServer) = {})
    /\ [][(/\ proxyServer.isShuttingDown
            /\ Len(proxyServer'.conns) = Len(proxyServer.conns) + 1) =>
                /\ proxyServer'.conns[Len(proxyServer'.conns)].status = "destroyed"
                /\ getConnectedClients(proxyServer') = getConnectedClients(proxyServer)]_vars
    /\ [](\A c \in 1..Len(proxyServer.conns) :
                ~proxyServer.conns[c].added => c \notin getConnectedClients(proxyServer))

\* a stop() has resolved after it destroyed two clients, and a connection that
\* arrived during the shutdown was destroyed
C33_Witness ==
    /\ Len(proxyServer.conns) = 3
    /\ proxyServer.conns[1].added /\ proxyServer.conns[2].added
    /\ ~proxyServer.conns[3].added
    /\ proxyServer.stops # <<>> /\ proxyServer.stops[1] = "resolved"
    /\ proxyServer.isShuttingDown

\* C34: when the onMessage handler throws for a message, the server emits
\* messageError for that message, writes no reply for it, keeps the client
\* connected (the table and the sockets are untouched, what the client has
\* still to deliver stays deliverable), and goes on to the next message of
\* the chunk.
C34_HandlerErrorIsContained ==
    [][\A l \in 1..Len(proxyServer.loops) :
        LET loop == proxyServer.loops[l]
        IN  \/ /\ proxyServer'.messageErrors = Append(proxyServer.messageErrors, loop.message)
               /\ proxyServer'.replies = proxyServer.replies
               /\ proxyServer'.replyOrder = proxyServer.replyOrder
               /\ proxyServer'.clients = proxyServer.clients
               /\ proxyServer'.conns = proxyServer.conns
               /\ proxyServer'.wire = proxyServer.wire
               /\ proxyServer'.buffer = proxyServer.buffer
               /\ loop.rest # <<>> =>
                    /\ proxyServer'.onMessageCalls =
                            Append(proxyServer.onMessageCalls, Head(loop.rest))
                    /\ \E k \in 1..Len(proxyServer'.loops) :
                            proxyServer'.loops[k] =
                                [message |-> Head(loop.rest), rest |-> Tail(loop.rest),
                                 ordinal |-> loop.ordinal + 1]
            \/ ~onMessageSettles(l, "throw")]_vars

\* the handler threw for the first message of a chunk, and the second message
\* of that chunk was processed and answered while the client is connected
C34_Witness ==
    /\ proxyServer.messageErrors = << <<"a">> >>
    /\ proxyServer.onMessageCalls = << <<"a">>, <<"a">> >>
    /\ proxyServer.replyOrder = <<2>>
    /\ proxyServer.received = 2
    /\ 1 \in proxyServer.clients
    /\ proxyServer.conns[1].status = "open"

\* C35: whatever ids the generator returns, also one that is still pending,
\* every call that registered a record is settled at most once and has its
\* record in the table until it is settled, and a record leaves the table or
\* is replaced only when its own call has been settled.
C35_DuplicateIdsKeepCallsApart ==
    /\ [](\A c \in Calls : Registered(c) =>
                /\ calls[c].settles <= 1
                /\ calls[c].settles = 0 =>
                        /\ IsPending(c)
                        /\ pendingRequests[calls[c].id].call = c)
    /\ [][\A id \in DOMAIN pendingRequests :
                (id \notin DOMAIN pendingRequests' \/ pendingRequests'[id] # pendingRequests[id]) =>
                    calls'[pendingRequests[id].call].settles = 1]_vars

\* C36: with two clients on one transport, the response to a request of the
\* second client never settles a call of the first and never removes one of
\* its pending records or timers.
C36_OtherClientsResponseIsIgnored ==
    [][\A id \in otherClient.awaiting :
            \/ /\ calls' = calls
               /\ pendingRequests' = pendingRequests
               /\ timers' = timers
            \/ ~otherClientAnswered(id)]_vars

\* C37: a failed or lost connection schedules one reconnect attempt and
\* increases the attempt counter by one, also when the socket reports both an
\* 'error' and a 'close' for the failure, and at most one reconnect timer is
\* outstanding at any time.
C37_OneReconnectPerFailure ==
    /\ [](Len(targetClient.reconnects) <= 1)
    /\ [][/\ Len(Scheduled(targetClient, targetClient')) <= 1
           /\ targetClient'.reconnectAttempts <= targetClient.reconnectAttempts + 1]_vars

\* Invocation m can still be settled: it awaits a connect() whose promise is
\* pending, or it is queued with its timer armed.
CanStillSettle(m) ==
    LET message == targetClient.messages[m] IN
    \/ /\ message.awaiting # 0
       /\ targetClient.sockets[message.awaiting].promise = "pending"
    \/ m \in Queued(targetClient) /\ message.timer

\* no resolve or reject of a sendMessage promise is invoked a second time,
\* and a queued message is one that was not settled
SettledAtMostOnce ==
    \A m \in 1..Len(targetClient.messages) :
        /\ targetClient.messages[m].settles <= 1
        /\ m \in Queued(targetClient) => targetClient.messages[m].settles = 0

\* disconnect() leaves the queue empty, and from then on no reconnect timer
\* is armed and no reconnect timer creates a socket
DisconnectEndsReconnecting ==
    /\ disconnect => targetClient'.messageQueue = <<>>
    /\ targetClient.isShuttingDown =>
            /\ Scheduled(targetClient, targetClient') = <<>>
            /\ \A r \in 1..Len(targetClient.reconnects) :
                    reconnectTimer(r) => targetClient'.sockets = targetClient.sockets

\* C38: every sendMessage promise is settled exactly once: none is settled
\* twice, a message taken from the queue is not settled again, and none that
\* is unsettled has lost every way of being settled (a response, its message
\* timeout, a connection loss, disconnect(), or the outcome of the connect()
\* it awaits); disconnect() empties the queue and after it no reconnect
\* attempt is started.
C38_SendMessageSettlesExactlyOnce ==
    /\ [](SettledAtMostOnce)
    /\ [](\A m \in 1..Len(targetClient.messages) :
            targetClient.messages[m].settles = 0 => CanStillSettle(m))
    /\ [][DisconnectEndsReconnecting]_vars

\* C40: after any sequence of addResponse, removeResponse and
\* generateResponse calls, generateResponse returns for a message the same
\* text whether the template comes from the response cache or from a fresh
\* lookup, additional variables of the template included.
C40_CachedAnswerIsFreshAnswer ==
    \A message \in Messages, clientId \in ClientIds :
        generateResponse(responseHandler, message, clientId).returned
            = generateResponse(clearCache(responseHandler), message, clientId).returned

====
